---- MODULE Spec2Model ----
(***************************************************************************)
(* Portfolio analytics core of PortaAI: analyze_portfolio and              *)
(* get_allocation_recommendation (src/portfolio_analyzer.py),              *)
(* predict_portfolio_performance and its lookup tables,                    *)
(* generate_economic_scenario_analysis and                                 *)
(* calculate_modern_portfolio_theory_metrics (src/advanced_analytics.py),  *)
(* get_risk_profile_allocation (src/utils.py).                             *)
(*                                                                         *)
(* Three groups of behaviours: Spec (analysis, recommendation and          *)
(* prediction under every risk profile), SpecScenario and SpecFunctions    *)
(* (the scenario analysis, alone and next to the other functions) and      *)
(* SpecMPT (the risk statistics for every sample answer of the download).  *)
(*                                                                         *)
(* Around the core: SpecAlerts (the price alerts of src/price_alerts.py),  *)
(* SpecGoal (the monthly investment of src/goals.py), and the Streamlit    *)
(* session of src/app.py with the tables of src/database.py: SpecApp from  *)
(* the first run of a session, SpecPortfolio for the events that build the *)
(* session portfolio.                                                      *)
(*                                                                         *)
(* Arithmetic.  The Python code computes with floats.  The model computes  *)
(* the same expressions in exact arithmetic: a number is a rational        *)
(* [n |-> numerator, d |-> denominator] in lowest terms, and a value of    *)
(* the form c * b ** (month / 12) with a non-integral exponent is kept as  *)
(* the triple (c, b, month).  The scenario analysis and the risk           *)
(* statistics raise to powers that exceed machine integers: there a number *)
(* is a signed fraction of naturals kept as sequences of decimal limbs.    *)
(* Rounding of IEEE doubles is not modelled.                               *)
(***************************************************************************)
EXTENDS Integers, Sequences, FiniteSets, TLC

VARIABLES portfolio, risk_profile, time_horizon_years, analysis_result, recommendations,
          prediction, scenario_analysis, price_data, mpt_metrics,
          alerts, current_prices, triggered_alerts, returned_alerts,
          goal, monthly_investment,
          session_state, database, page

\* the inputs and results of the analytics functions; in the application,
\* portfolio, risk_profile, analysis_result and recommendations are the session
\* keys PORTFOLIO, RISK_PROFILE, ANALYSIS_RESULT and RECOMMENDATIONS
analytics_vars == <<portfolio, risk_profile, time_horizon_years, analysis_result,
                    recommendations, prediction, scenario_analysis, price_data, mpt_metrics>>

\* the price_alerts table, the argument and the result of the last
\* check_price_alerts, and the ids every check so far has returned
alert_vars == <<alerts, current_prices, triggered_alerts, returned_alerts>>

\* the arguments and the result of calculate_monthly_investment_needed
goal_vars == <<goal, monthly_investment>>

\* the remaining keys of st.session_state, the tables of the database and what
\* the last run of main() displayed
app_vars == <<session_state, database, page>>

vars == <<analytics_vars, alert_vars, goal_vars, app_vars>>

(***************************************************************************)
(* Bounds of the model.                                                    *)
(***************************************************************************)
MaxAdded == 1
MaxAmount == 1
MaxHorizon == 5

None == [status |-> "None"]

\* the variables of the parts of the program a behaviour does not exercise
NoPrices == [ticker \in {} |-> 0]

NoAlerts ==
    /\ alerts = <<>>
    /\ current_prices = NoPrices
    /\ triggered_alerts = <<>>
    /\ returned_alerts = {}

NoGoal ==
    /\ goal = None
    /\ monthly_investment = None

NoApplication ==
    /\ session_state = None
    /\ database = None
    /\ page = None

(***************************************************************************)
(* Exact rational arithmetic.                                              *)
(***************************************************************************)
Abs(x) == IF x < 0 THEN 0 - x ELSE x

RECURSIVE Gcd(_, _)
Gcd(a, b) == IF b = 0 THEN a ELSE Gcd(b, a % b)

Rat(n, d) ==
    LET g == Gcd(Abs(n), Abs(d))
        s == IF d < 0 THEN 0 - 1 ELSE 1
    IN  [n |-> s * (n \div g), d |-> s * (d \div g)]

Int2Rat(i) == [n |-> i, d |-> 1]

Zero == Int2Rat(0)

One == Int2Rat(1)

Lcm(a, b) == (a \div Gcd(a, b)) * b

RatAdd(x, y) ==
    LET l == Lcm(x.d, y.d)
    IN  Rat(x.n * (l \div x.d) + y.n * (l \div y.d), l)

RatNeg(x) == [n |-> 0 - x.n, d |-> x.d]

RatSub(x, y) == RatAdd(x, RatNeg(y))

RatMul(x, y) ==
    LET g1 == Gcd(Abs(x.n), y.d)
        g2 == Gcd(Abs(y.n), x.d)
    IN  IF x.n = 0 \/ y.n = 0 THEN Zero
        ELSE [n |-> (x.n \div g1) * (y.n \div g2), d |-> (x.d \div g2) * (y.d \div g1)]

\* x / y for y # 0
RatDiv(x, y) == RatMul(x, Rat(y.d, y.n))

RatLess(x, y) ==
    LET l == Lcm(x.d, y.d)
    IN  x.n * (l \div x.d) < y.n * (l \div y.d)

RatLeq(x, y) == ~RatLess(y, x)

RatAbs(x) == [n |-> Abs(x.n), d |-> x.d]

(***************************************************************************)
(* Lookup tables.  A Python dict is a sequence of [category, value]        *)
(* entries in insertion order.                                             *)
(***************************************************************************)
LOW == "Low Risk (Conservative)"

MEDIUM == "Medium Risk (Balanced)"

HIGH == "High Risk (Aggressive)"

Entry(c, v) == [category |-> c, value |-> v]

Keys(dict) == {dict[i].category : i \in 1..Len(dict)}

Get(dict, c, default) ==
    IF c \in Keys(dict)
    THEN (CHOOSE e \in {dict[i] : i \in 1..Len(dict)} : e.category = c).value
    ELSE default

get_risk_profile_allocation(rp) ==
    LET allocations == [x \in {LOW, MEDIUM, HIGH} |->
            CASE x = LOW ->
                   <<Entry("Large Cap", 40), Entry("Mid Cap", 25), Entry("Small Cap", 20),
                     Entry("Gold", 10), Entry("ETFs/Crypto", 5)>>
              [] x = MEDIUM ->
                   <<Entry("Large Cap", 30), Entry("Mid Cap", 30), Entry("Small Cap", 25),
                     Entry("Gold", 10), Entry("ETFs/Crypto", 5)>>
              [] x = HIGH ->
                   <<Entry("Large Cap", 25), Entry("Mid Cap", 25), Entry("Small Cap", 35),
                     Entry("ETFs/Crypto", 10), Entry("Gold", 5)>>]
    IN  IF rp \in DOMAIN allocations THEN allocations[rp] ELSE allocations[MEDIUM]

\* the Python test  "Low Risk" in risk_profile  on the profile strings of the model
ContainsLowRisk(rp) == rp \in {LOW}

\* the Python test  "Medium Risk" in risk_profile
ContainsMediumRisk(rp) == rp \in {MEDIUM}

get_expected_return_rates(rp) ==
    IF ContainsLowRisk(rp) THEN
        <<Entry("Large Cap", Rat(6, 100)), Entry("Mid Cap", Rat(8, 100)),
          Entry("Small Cap", Rat(10, 100)), Entry("Gold", Rat(4, 100)),
          Entry("ETFs/Crypto", Rat(7, 100))>>
    ELSE IF ContainsMediumRisk(rp) THEN
        <<Entry("Large Cap", Rat(8, 100)), Entry("Mid Cap", Rat(10, 100)),
          Entry("Small Cap", Rat(13, 100)), Entry("Gold", Rat(4, 100)),
          Entry("ETFs/Crypto", Rat(12, 100))>>
    ELSE
        <<Entry("Large Cap", Rat(9, 100)), Entry("Mid Cap", Rat(12, 100)),
          Entry("Small Cap", Rat(15, 100)), Entry("Gold", Rat(4, 100)),
          Entry("ETFs/Crypto", Rat(18, 100))>>

get_volatility_estimates(rp) ==
    IF ContainsLowRisk(rp) THEN
        <<Entry("Large Cap", Rat(10, 100)), Entry("Mid Cap", Rat(14, 100)),
          Entry("Small Cap", Rat(18, 100)), Entry("Gold", Rat(12, 100)),
          Entry("ETFs/Crypto", Rat(20, 100))>>
    ELSE IF ContainsMediumRisk(rp) THEN
        <<Entry("Large Cap", Rat(12, 100)), Entry("Mid Cap", Rat(16, 100)),
          Entry("Small Cap", Rat(20, 100)), Entry("Gold", Rat(12, 100)),
          Entry("ETFs/Crypto", Rat(25, 100))>>
    ELSE
        <<Entry("Large Cap", Rat(15, 100)), Entry("Mid Cap", Rat(20, 100)),
          Entry("Small Cap", Rat(25, 100)), Entry("Gold", Rat(12, 100)),
          Entry("ETFs/Crypto", Rat(35, 100))>>

(***************************************************************************)
(* Holdings.                                                               *)
(***************************************************************************)
Item(name, category, amount) == [name |-> name, category |-> category, amount |-> amount]

\* sum(item['amount'] for item in portfolio)
RECURSIVE SumAmounts(_)
SumAmounts(p) == IF p = <<>> THEN 0 ELSE p[1].amount + SumAmounts(Tail(p))

\* GroupByCategory with "=" for "+=": a later holding replaces the category's total
RECURSIVE GroupByCategory_Overwrite(_)
GroupByCategory_Overwrite(p) ==
    IF p = <<>> THEN <<>>
    ELSE LET rest == GroupByCategory_Overwrite(SubSeq(p, 1, Len(p) - 1))
             item == p[Len(p)]
         IN  IF item.category \in Keys(rest)
             THEN [i \in 1..Len(rest) |->
                      IF rest[i].category = item.category
                      THEN Entry(item.category, item.amount)
                      ELSE rest[i]]
             ELSE Append(rest, Entry(item.category, item.amount))

\* the per-category totals built by the grouping loop: category -> summed amount
RECURSIVE GroupByCategory(_)
GroupByCategory(p) ==
    IF p = <<>> THEN <<>>
    ELSE LET rest == GroupByCategory(SubSeq(p, 1, Len(p) - 1))
             item == p[Len(p)]
         IN  IF item.category \in Keys(rest)
             THEN [i \in 1..Len(rest) |->
                      IF rest[i].category = item.category
                      THEN Entry(item.category, rest[i].value + item.amount)
                      ELSE rest[i]]
             ELSE Append(rest, Entry(item.category, item.amount))

(***************************************************************************)
(* analyze_portfolio (src/portfolio_analyzer.py).  An insight is           *)
(* [type, message, subject]: message names the f-string template and       *)
(* subject the category or holding name it is formatted with.              *)
(***************************************************************************)
Insight(type, message, subject) == [type |-> type, message |-> message, subject |-> subject]

\* {category: (amount / total_investment) * 100 for category, amount in ...}
current_allocation_pct(current_allocation, total_investment) ==
    [i \in 1..Len(current_allocation) |->
        Entry(current_allocation[i].category,
              RatMul(Rat(current_allocation[i].value, total_investment), Int2Rat(100)))]

\* AllocationInsight with ">=" for ">" in the 5-point test
AllocationInsight_From5(category, target_pct, allocation_pct) ==
    LET current_pct == Get(allocation_pct, category, Zero)
        diff == RatAbs(RatSub(current_pct, Int2Rat(target_pct)))
    IN  IF category \notin Keys(allocation_pct)
        THEN <<Insight("warning", "no_investments", category)>>
        ELSE IF RatLess(Int2Rat(10), diff)
        THEN IF RatLess(Int2Rat(target_pct), current_pct)
             THEN <<Insight("warning", "significantly_higher", category)>>
             ELSE <<Insight("warning", "significantly_lower", category)>>
        ELSE IF RatLeq(Int2Rat(5), diff)
        THEN IF RatLess(Int2Rat(target_pct), current_pct)
             THEN <<Insight("info", "slightly_higher", category)>>
             ELSE <<Insight("info", "slightly_lower", category)>>
        ELSE <<>>

\* the body of the loop "for category, target_pct in target_allocation.items()"
AllocationInsight(category, target_pct, allocation_pct) ==
    LET current_pct == Get(allocation_pct, category, Zero)
        diff == RatAbs(RatSub(current_pct, Int2Rat(target_pct)))
    IN  IF category \notin Keys(allocation_pct)
        THEN <<Insight("warning", "no_investments", category)>>
        ELSE IF RatLess(Int2Rat(10), diff)
        THEN IF RatLess(Int2Rat(target_pct), current_pct)
             THEN <<Insight("warning", "significantly_higher", category)>>
             ELSE <<Insight("warning", "significantly_lower", category)>>
        ELSE IF RatLess(Int2Rat(5), diff)
        THEN IF RatLess(Int2Rat(target_pct), current_pct)
             THEN <<Insight("info", "slightly_higher", category)>>
             ELSE <<Insight("info", "slightly_lower", category)>>
        ELSE <<>>

RECURSIVE AllocationInsights(_, _)
AllocationInsights(target_allocation, allocation_pct) ==
    IF target_allocation = <<>> THEN <<>>
    ELSE AllocationInsight(target_allocation[1].category, target_allocation[1].value,
                           allocation_pct)
         \o AllocationInsights(Tail(target_allocation), allocation_pct)

\* max_pct_per_stock.get(risk_profile, 15)
max_allowed(rp) ==
    CASE rp = LOW -> 10
      [] rp = MEDIUM -> 15
      [] rp = HIGH -> 20
      [] OTHER -> 15

\* ConcentrationInsight with ">=" for ">": a holding at the ceiling is flagged too
ConcentrationInsight_AtCeiling(item, total_investment, rp) ==
    LET item_pct == RatMul(Rat(item.amount, total_investment), Int2Rat(100))
    IN  IF RatLeq(Int2Rat(max_allowed(rp)), item_pct)
        THEN <<Insight("warning", "exceeds_maximum", item.name)>>
        ELSE <<>>

\* the body of the loop "for item in portfolio" of the overconcentration check
ConcentrationInsight(item, total_investment, rp) ==
    LET item_pct == RatMul(Rat(item.amount, total_investment), Int2Rat(100))
    IN  IF RatLess(Int2Rat(max_allowed(rp)), item_pct)
        THEN <<Insight("warning", "exceeds_maximum", item.name)>>
        ELSE <<>>

RECURSIVE ConcentrationInsights(_, _, _)
ConcentrationInsights(p, total_investment, rp) ==
    IF p = <<>> THEN <<>>
    ELSE ConcentrationInsight(p[1], total_investment, rp)
         \o ConcentrationInsights(Tail(p), total_investment, rp)

\* WithBalancedMarker without the "if not insights" test
WithBalancedMarker_Always(insights) ==
    Append(insights, Insight("success", "well_balanced", ""))

\* "if not insights: insights.append(success)"
WithBalancedMarker(insights) ==
    IF insights = <<>>
    THEN <<Insight("success", "well_balanced", "")>>
    ELSE insights

analyze_portfolio(p, rp) ==
    IF p = <<>> THEN
        [status |-> "ok",
         current_allocation |-> <<>>,
         target_allocation |-> get_risk_profile_allocation(rp),
         insights |-> <<Insight("info", "add_investments", "")>>]
    ELSE
        LET total_investment == SumAmounts(p)
            current_allocation == GroupByCategory(p)
        IN  IF total_investment = 0
            THEN [status |-> "raised", error |-> "ZeroDivisionError"]
            ELSE LET allocation_pct == current_allocation_pct(current_allocation, total_investment)
                     target_allocation == get_risk_profile_allocation(rp)
                     insights == AllocationInsights(target_allocation, allocation_pct)
                                 \o ConcentrationInsights(p, total_investment, rp)
                 IN  [status |-> "ok",
                      current_allocation |-> allocation_pct,
                      target_allocation |-> target_allocation,
                      insights |-> WithBalancedMarker(insights)]

(***************************************************************************)
(* get_allocation_recommendation (src/portfolio_analyzer.py).              *)
(***************************************************************************)
\* total_investment * (current_pct / 100) if current_pct > 0 else 0
current_amount(category, current_allocation, total_investment) ==
    LET current_pct == Get(current_allocation, category, Zero)
    IN  IF RatLess(Zero, current_pct)
        THEN RatMul(Int2Rat(total_investment), RatDiv(current_pct, Int2Rat(100)))
        ELSE Zero

\* a target amount taken as a share of 95 instead of 100
target_amount_Normalised(target_pct, total_investment) ==
    RatMul(Int2Rat(total_investment), Rat(target_pct, 95))

\* total_investment * (target_pct / 100)
target_amount(target_pct, total_investment) ==
    RatMul(Int2Rat(total_investment), Rat(target_pct, 100))

\* difference = target_amount - current_amount
difference(category, target_pct, current_allocation, total_investment) ==
    RatSub(target_amount(target_pct, total_investment),
           current_amount(category, current_allocation, total_investment))

\* RebalanceAction taking the current percentage for a fraction (no "/ 100")
RebalanceAction_NoPercent(category, target_pct, current_allocation, total_investment) ==
    LET current_pct == Get(current_allocation, category, Zero)
        held_amount == IF RatLess(Zero, current_pct)
                          THEN RatMul(Int2Rat(total_investment), current_pct)
                          ELSE Zero
        wanted_amount == RatMul(Int2Rat(total_investment), Rat(target_pct, 100))
        gap == RatSub(wanted_amount, held_amount)
        action(type) == [category |-> category, action_type |-> type,
                         current_amount |-> held_amount,
                         target_amount |-> wanted_amount,
                         difference |-> gap]
    IN  IF RatLess(RatMul(Int2Rat(total_investment), Rat(1, 100)), RatAbs(gap))
        THEN IF RatLess(Zero, gap)
             THEN <<action("increase")>>
             ELSE <<action("decrease")>>
        ELSE <<>>

\* RebalanceAction with ">=" for ">" in the 1% test
RebalanceAction_AtThreshold(category, target_pct, current_allocation, total_investment) ==
    LET current_pct == Get(current_allocation, category, Zero)
        held_amount == IF RatLess(Zero, current_pct)
                          THEN RatMul(Int2Rat(total_investment), RatDiv(current_pct, Int2Rat(100)))
                          ELSE Zero
        wanted_amount == RatMul(Int2Rat(total_investment), Rat(target_pct, 100))
        gap == RatSub(wanted_amount, held_amount)
        action(type) == [category |-> category, action_type |-> type,
                         current_amount |-> held_amount,
                         target_amount |-> wanted_amount,
                         difference |-> gap]
    IN  IF RatLeq(RatMul(Int2Rat(total_investment), Rat(1, 100)), RatAbs(gap))
        THEN IF RatLess(Zero, gap)
             THEN <<action("increase")>>
             ELSE <<action("decrease")>>
        ELSE <<>>

\* the body of the loop "for category, target_pct in target_allocation.items()"
RebalanceAction(category, target_pct, current_allocation, total_investment) ==
    LET action(type) ==
            [category |-> category, action_type |-> type,
             current_amount |-> current_amount(category, current_allocation, total_investment),
             target_amount |-> target_amount(target_pct, total_investment),
             difference |-> difference(category, target_pct, current_allocation,
                                       total_investment)]
    IN  IF RatLess(RatMul(Int2Rat(total_investment), Rat(1, 100)),
                   RatAbs(difference(category, target_pct, current_allocation,
                                     total_investment)))
        THEN IF RatLess(Zero, difference(category, target_pct, current_allocation,
                                         total_investment))
             THEN <<action("increase")>>
             ELSE <<action("decrease")>>
        ELSE <<>>

RECURSIVE RebalanceActions(_, _, _)
RebalanceActions(target_allocation, current_allocation, total_investment) ==
    IF target_allocation = <<>> THEN <<>>
    ELSE RebalanceAction(target_allocation[1].category, target_allocation[1].value,
                         current_allocation, total_investment)
         \o RebalanceActions(Tail(target_allocation), current_allocation, total_investment)

get_allocation_recommendation(p, analysis) ==
    IF p = <<>> THEN
        [status |-> "ok", actions |-> <<>>, allocation |-> <<>>]
    ELSE
        LET total_investment == SumAmounts(p)
        IN  [status |-> "ok",
             actions |-> RebalanceActions(analysis.target_allocation,
                                          analysis.current_allocation, total_investment),
             total_investment |-> total_investment]

(***************************************************************************)
(* predict_portfolio_performance (src/advanced_analytics.py).              *)
(*                                                                         *)
(* A projected value c * b ** t is [c, b, e] with t = e / 12: a rational   *)
(* c when e = 0 (b is then 1), otherwise the power left unevaluated.       *)
(***************************************************************************)
Val(c) == [c |-> c, b |-> One, e |-> 0]

Complex == [complex |-> TRUE]

IsComplex(v) == "complex" \in DOMAIN v

\* total_value * base ** (month / 12), as Python's float ** float gives it
Pow(total_value, base, month) ==
    IF month = 0 \/ base = One THEN Val(total_value)
    ELSE IF base = Zero THEN Val(Zero)
    ELSE IF month = 12 THEN Val(RatMul(total_value, base))
    ELSE IF RatLess(base, Zero) /\ month % 12 # 0 THEN Complex
    ELSE IF total_value = Zero THEN Val(Zero)
    ELSE [c |-> total_value, b |-> base, e |-> month]

\* -1, 0 or 1
Sign(v) ==
    LET sc == IF v.c.n < 0 THEN 0 - 1 ELSE IF v.c.n = 0 THEN 0 ELSE 1
    IN  IF v.b.n < 0 /\ (v.e \div 12) % 2 = 1 THEN 0 - sc ELSE sc

\* max(0, v)
Max0(v) == IF Sign(v) > 0 THEN v ELSE Val(Zero)

\* WeightedSum adding each category's rate without its weight
RECURSIVE WeightedSum_Unweighted(_, _, _)
WeightedSum_Unweighted(portfolio_categories, total_value, table) ==
    IF portfolio_categories = <<>> THEN Zero
    ELSE LET category == portfolio_categories[1].category
             rest == WeightedSum_Unweighted(Tail(portfolio_categories), total_value, table)
         IN  IF category \in Keys(table)
             THEN RatAdd(Get(table, category, Zero), rest)
             ELSE rest

\* WeightedSum giving a category the table does not list the Large Cap rate
RECURSIVE WeightedSum_LargeCapDefault(_, _, _)
WeightedSum_LargeCapDefault(portfolio_categories, total_value, table) ==
    IF portfolio_categories = <<>> THEN Zero
    ELSE LET category == portfolio_categories[1].category
             category_weight == Rat(portfolio_categories[1].value, total_value)
             rest == WeightedSum_LargeCapDefault(Tail(portfolio_categories), total_value, table)
         IN  RatAdd(RatMul(category_weight,
                           Get(table, category, Get(table, "Large Cap", Zero))), rest)

\* the loops "for category, amount in portfolio_categories.items()", for a table
\* of expected returns or of volatilities
RECURSIVE WeightedSum(_, _, _)
WeightedSum(portfolio_categories, total_value, table) ==
    IF portfolio_categories = <<>> THEN Zero
    ELSE LET category == portfolio_categories[1].category
             category_weight == Rat(portfolio_categories[1].value, total_value)
             rest == WeightedSum(Tail(portfolio_categories), total_value, table)
         IN  IF category \in Keys(table)
             THEN RatAdd(RatMul(category_weight, Get(table, category, Zero)), rest)
             ELSE rest

\* pessimistic_return adding the volatility instead of subtracting it
pessimistic_return_Plus(weighted_return, portfolio_volatility) ==
    RatAdd(weighted_return, portfolio_volatility)

pessimistic_return(weighted_return, portfolio_volatility) ==
    RatSub(weighted_return, portfolio_volatility)

optimistic_return(weighted_return, portfolio_volatility) ==
    RatAdd(weighted_return, portfolio_volatility)

\* range(time_horizon_years * 12 + 1), as the sequence of its months
Months(horizon) ==
    IF horizon * 12 + 1 <= 0 THEN <<>>
    ELSE [i \in 1..(horizon * 12 + 1) |-> i - 1]

\* Predictions with "<" for "<=" in "if year <= time_horizon_years"
RECURSIVE Predictions_Before(_, _, _, _, _)
Predictions_Before(years, horizon, pessimistic_values, expected_values, optimistic_values) ==
    IF years = <<>> THEN <<>>
    ELSE LET year == years[1]
             index == year * 12
             rest == Predictions_Before(Tail(years), horizon, pessimistic_values,
                                        expected_values, optimistic_values)
         IN  IF year < horizon
             THEN <<[year |-> year,
                     pessimistic |-> pessimistic_values[index + 1],
                     expected |-> expected_values[index + 1],
                     optimistic |-> optimistic_values[index + 1]]>> \o rest
             ELSE rest

\* the "for year in [1, 3, 5]" loop; values[index] is Python's 0-based indexing
RECURSIVE Predictions(_, _, _, _, _)
Predictions(years, horizon, pessimistic_values, expected_values, optimistic_values) ==
    IF years = <<>> THEN <<>>
    ELSE LET year == years[1]
             index == year * 12
             rest == Predictions(Tail(years), horizon, pessimistic_values,
                                 expected_values, optimistic_values)
         IN  IF year <= horizon
             THEN <<[year |-> year,
                     pessimistic |-> pessimistic_values[index + 1],
                     expected |-> expected_values[index + 1],
                     optimistic |-> optimistic_values[index + 1]]>> \o rest
             ELSE rest

\* one band of the projection: total_value * (1 + rate) ** time_factor for each month
Band(total_value, base, months) ==
    [i \in DOMAIN months |-> Pow(total_value, base, months[i])]

predict_portfolio_performance(p, rp, horizon) ==
    LET total_value == SumAmounts(p)
        expected_returns == get_expected_return_rates(rp)
        portfolio_categories == GroupByCategory(p)
        volatility_estimates == get_volatility_estimates(rp)
    IN  IF portfolio_categories # <<>> /\ total_value = 0
        THEN [status |-> "raised", error |-> "ZeroDivisionError"]
        ELSE
        LET weighted_return == WeightedSum(portfolio_categories, total_value, expected_returns)
            portfolio_volatility ==
                WeightedSum(portfolio_categories, total_value, volatility_estimates)
            months == Months(horizon)
            tv == Int2Rat(total_value)
            expected_values == Band(tv, RatAdd(One, weighted_return), months)
            pessimistic_raw ==
                Band(tv, RatAdd(One, pessimistic_return(weighted_return, portfolio_volatility)),
                     months)
            optimistic_values ==
                Band(tv, RatAdd(One, optimistic_return(weighted_return, portfolio_volatility)),
                     months)
        IN  IF \E i \in DOMAIN months : IsComplex(pessimistic_raw[i])
            THEN [status |-> "raised", error |-> "TypeError"]
            ELSE IF months = <<>>
            THEN [status |-> "raised", error |-> "IndexError"]
            ELSE
            LET pessimistic_values == [i \in DOMAIN months |-> Max0(pessimistic_raw[i])]
            IN  [status |-> "ok",
                 total_value |-> total_value,
                 weighted_return |-> weighted_return,
                 portfolio_volatility |-> portfolio_volatility,
                 expected_returns |-> expected_returns,
                 risk_assessment |-> volatility_estimates,
                 chart_data |-> [Date |-> [i \in DOMAIN months |-> 30 * months[i]],
                                 Pessimistic |-> pessimistic_values,
                                 Expected |-> expected_values,
                                 Optimistic |-> optimistic_values],
                 predictions |-> Predictions(<<1, 3, 5>>, horizon,
                                             pessimistic_values, expected_values,
                                             optimistic_values)]

(***************************************************************************)
(* generate_economic_scenario_analysis (src/advanced_analytics.py).        *)
(*                                                                         *)
(* total_value * (1 + weighted_return) ** time_horizon_years has an        *)
(* integral exponent, so it is computed exactly; its numerator and         *)
(* denominator exceed the machine integers of the model checker, so they   *)
(* are natural numbers written in base Limb, least significant limb first, *)
(* without leading zero limbs (0 is the empty sequence).                   *)
(***************************************************************************)
Limb == 10 ^ 3

RECURSIVE Big(_)
Big(n) == IF n = 0 THEN <<>> ELSE <<n % Limb>> \o Big(n \div Limb)

\* the limbs f[1], f[2], .. as a sequence, each limb computed once
Limbs(f) == f \o <<>>

\* limb i of a, 0 beyond its length
LimbAt(a, i) == IF i \in DOMAIN a THEN a[i] ELSE 0

\* a without its leading zero limbs
BigTrim(a) ==
    LET used == {i \in DOMAIN a : a[i] # 0}
    IN  IF used = {} THEN <<>>
        ELSE SubSeq(a, 1, CHOOSE i \in used : \A j \in used : j <= i)

\* the number whose limbs are the sums s[i] in 0..2 * Limb - 2: the carry into
\* limb i comes from the nearest lower limb that overflows, through limbs that
\* are exactly Limb - 1
BigCarry(s) ==
    LET carry(i) == \E j \in 1..(i - 1) :
                        /\ s[j] >= Limb
                        /\ \A k \in (j + 1)..(i - 1) : s[k] = Limb - 1
    IN  BigTrim(Limbs([i \in 1..(Len(s) + 1) |->
                          (LimbAt(s, i) + (IF carry(i) THEN 1 ELSE 0)) % Limb]))

BigAdd(a, b) ==
    LET n == IF Len(a) > Len(b) THEN Len(a) ELSE Len(b)
    IN  BigCarry(Limbs([i \in 1..n |-> LimbAt(a, i) + LimbAt(b, i)]))

\* a - b for a >= b: the borrow into limb i comes from the nearest lower limb
\* where a is below b, through limbs where they are equal
BigSub(a, b) ==
    LET borrow(i) == \E j \in 1..(i - 1) :
                         /\ a[j] < LimbAt(b, j)
                         /\ \A k \in (j + 1)..(i - 1) : a[k] = LimbAt(b, k)
    IN  BigTrim(Limbs([i \in DOMAIN a |->
                          (a[i] - LimbAt(b, i) - (IF borrow(i) THEN 1 ELSE 0) + Limb) % Limb]))

\* f[lo] + .. + f[hi]
RECURSIVE RangeSum(_, _, _)
RangeSum(f, lo, hi) ==
    IF lo > hi THEN 0
    ELSE IF lo = hi THEN f[lo]
    ELSE LET mid == (lo + hi) \div 2
         IN  RangeSum(f, lo, mid) + RangeSum(f, mid + 1, hi)

\* one round of carrying: every limb keeps its remainder and takes the quotient
\* of the limb below
CarryRound(c) ==
    Limbs([i \in DOMAIN c |-> (c[i] % Limb) + (IF i = 1 THEN 0 ELSE c[i - 1] \div Limb)])

\* a * b: the columns of the schoolbook product, carried
BigMul(a, b) ==
    IF a = <<>> \/ b = <<>> THEN <<>>
    ELSE LET column == Limbs([k \in 1..(Len(a) + Len(b)) |->
                           LET lo == IF k + 1 - Len(b) > 1 THEN k + 1 - Len(b) ELSE 1
                               hi == IF k < Len(a) THEN k ELSE Len(a)
                           IN  RangeSum([i \in lo..hi |-> a[i] * b[k + 1 - i]], lo, hi)])
         IN  BigCarry(CarryRound(CarryRound(CarryRound(column))))

\* a < b
BigLess(a, b) ==
    IF Len(a) # Len(b) THEN Len(a) < Len(b)
    ELSE \E i \in DOMAIN a : a[i] < b[i] /\ \A j \in (i + 1)..Len(a) : a[j] = b[j]

(***************************************************************************)
(* Signed fractions over these naturals: [neg, n, d] stands for            *)
(* (-1)^neg * n / d with d > 0.  A fraction is not reduced to lowest       *)
(* terms, so two fractions are compared with QEq and QLess, never with =.  *)
(***************************************************************************)
SBig(neg, n) == [neg |-> neg /\ n # <<>>, n |-> n]

SAdd(x, y) ==
    IF x.neg = y.neg THEN SBig(x.neg, BigAdd(x.n, y.n))
    ELSE IF BigLess(x.n, y.n) THEN SBig(y.neg, BigSub(y.n, x.n))
    ELSE SBig(x.neg, BigSub(x.n, y.n))

Q(s, d) == [neg |-> s.neg, n |-> s.n, d |-> d]

\* the number n / d for machine integers n and d > 0
QRat(n, d) == Q(SBig(n < 0, Big(Abs(n))), Big(d))

QInt(i) == QRat(i, 1)

QAdd(x, y) ==
    IF x.d = y.d THEN Q(SAdd(x, y), x.d)
    ELSE Q(SAdd(SBig(x.neg, BigMul(x.n, y.d)), SBig(y.neg, BigMul(y.n, x.d))),
           BigMul(x.d, y.d))

QNeg(x) == Q(SBig(~x.neg, x.n), x.d)

QSub(x, y) == QAdd(x, QNeg(y))

QMul(x, y) == Q(SBig(x.neg # y.neg, BigMul(x.n, y.n)), BigMul(x.d, y.d))

\* x / y for y # 0
QDiv(x, y) == Q(SBig(x.neg # y.neg, BigMul(x.n, y.d)), BigMul(x.d, y.n))

QIsZero(x) == x.n = <<>>

QEq(x, y) == QIsZero(QSub(x, y))

QLess(x, y) == QSub(x, y).neg

\* x ** k for an integer k (x # 0 when k < 0)
RECURSIVE QPow(_, _)
QPow(x, k) ==
    IF k = 0 THEN QInt(1)
    ELSE IF k < 0 THEN QDiv(QInt(1), QPow(x, 0 - k))
    ELSE IF k % 2 = 1 THEN QMul(QPow(x, k - 1), x)
    ELSE LET half == QPow(x, k \div 2) IN QMul(half, half)

\* scenario_config, in the order of the dict
Scenario(name, large, mid, small, gold, crypto, probability) ==
    [name |-> name,
     large_cap_return |-> QRat(large, 100),
     mid_cap_return |-> QRat(mid, 100),
     small_cap_return |-> QRat(small, 100),
     gold_return |-> QRat(gold, 100),
     crypto_return |-> QRat(crypto, 100),
     probability |-> QRat(probability, 100)]

scenario_config ==
    << Scenario("Base Case", 8, 10, 12, 3, 10, 50),
       Scenario("High Inflation", 6, 7, 8, 10, 5, 20),
       Scenario("Recession", 0 - 5, 0 - 10, 0 - 15, 8, 0 - 20, 15),
       Scenario("Bull Market", 12, 15, 20, 1, 25, 15) >>

category_mapping ==
    << Entry("Large Cap", "large_cap_return"), Entry("Mid Cap", "mid_cap_return"),
       Entry("Small Cap", "small_cap_return"), Entry("Gold", "gold_return"),
       Entry("ETFs/Crypto", "crypto_return") >>

\* return_key with no fallback: a category outside the mapping adds nothing
return_key_NoDefault(category) == Get(category_mapping, category, "none")

\* category_mapping.get(category, "large_cap_return")
return_key(category) == Get(category_mapping, category, "large_cap_return")

\* the loop "for category, amount in portfolio_categories.items()" of one scenario,
\* from the running sum weighted_return
RECURSIVE ScenarioReturn(_, _, _, _)
ScenarioReturn(portfolio_categories, total_value, scenario_config_data, weighted_return) ==
    IF portfolio_categories = <<>> THEN weighted_return
    ELSE LET category_weight == QRat(portfolio_categories[1].value, total_value)
             key == return_key(portfolio_categories[1].category)
             rate == IF key \in DOMAIN scenario_config_data
                     THEN scenario_config_data[key] ELSE QInt(0)
         IN  ScenarioReturn(Tail(portfolio_categories), total_value, scenario_config_data,
                            QAdd(weighted_return, QMul(category_weight, rate)))

\* final_value with the horizon off by one year
final_value_NextYear(total_value, weighted_return, horizon) ==
    QMul(QInt(total_value), QPow(QAdd(QInt(1), weighted_return), horizon + 1))

\* total_value * (1 + weighted_return) ** time_horizon_years
final_value(total_value, weighted_return, horizon) ==
    QMul(QInt(total_value), QPow(QAdd(QInt(1), weighted_return), horizon))

\* scenario_results, in the order of scenarios
ScenarioResults(portfolio_categories, total_value, horizon) ==
    [s \in DOMAIN scenario_config |->
        LET weighted_return ==
                ScenarioReturn(portfolio_categories, total_value, scenario_config[s], QInt(0))
        IN  [name |-> scenario_config[s].name,
             annual_return |-> weighted_return,
             final_value |-> final_value(total_value, weighted_return, horizon),
             probability |-> scenario_config[s].probability]]

\* expected_value leaving the probabilities out
RECURSIVE expected_value_Unweighted(_, _)
expected_value_Unweighted(scenario_results, sum) ==
    IF scenario_results = <<>> THEN sum
    ELSE expected_value_Unweighted(Tail(scenario_results),
                                   QAdd(sum, scenario_results[1].final_value))

\* sum(final_value * probability for scenario_data in scenario_results.values())
RECURSIVE expected_value(_, _)
expected_value(scenario_results, sum) ==
    IF scenario_results = <<>> THEN sum
    ELSE expected_value(Tail(scenario_results),
                        QAdd(sum, QMul(scenario_results[1].final_value,
                                       scenario_results[1].probability)))

\* year_data[scenario_name] = total_value * (1 + annual_return) ** year
year_value(total_value, annual_return, year) ==
    QMul(QInt(total_value), QPow(QAdd(QInt(1), annual_return), year))

\* chart_data: one row per year of range(time_horizon_years + 1)
ScenarioChart(scenario_results, total_value, horizon) ==
    IF horizon + 1 <= 0 THEN <<>>
    ELSE [i \in 1..(horizon + 1) |->
            [Year |-> i - 1,
             values |-> [s \in DOMAIN scenario_results |->
                            year_value(total_value, scenario_results[s].annual_return,
                                       i - 1)]]]

Recommendation(message, subject) == [message |-> message, subject |-> subject]

\* min(scenario_results.items(), key=lambda x: x[1]["final_value"]): the first of
\* the scenarios of least final value
RECURSIVE worst_scenario(_, _)
worst_scenario(scenario_results, worst) ==
    IF scenario_results = <<>> THEN worst
    ELSE worst_scenario(Tail(scenario_results),
                        IF QLess(scenario_results[1].final_value, worst.final_value)
                        THEN scenario_results[1] ELSE worst)

Probability(scenario_results, name) ==
    LET found == {s \in DOMAIN scenario_results : scenario_results[s].name = name}
    IN  IF found = {} THEN None ELSE scenario_results[CHOOSE s \in found : TRUE].probability

\* (expected_value / total_value) ** (1 / time_horizon_years) - 1 < 0.05 for a
\* horizon # 0.  The root is not a fraction; x ** (1 / h) < 1.05 is decided as
\* x < 1.05 ** h when h > 0 and as x > 1.05 ** h when h < 0 (x > 0).
ReturnShortfall(expected, total_value, horizon) ==
    LET x == QDiv(expected, QInt(total_value))
        bound == QPow(QAdd(QInt(1), QRat(5, 100)), horizon)
    IN  IF horizon > 0 THEN QLess(x, bound) ELSE QLess(bound, x)

\* the vulnerability recommendation given from a loss of exactly 20% on
VulnerabilityRecommendation_From20(worst, total_value) ==
    LET worst_case_change ==
            QDiv(QSub(worst.final_value, QInt(total_value)), QInt(total_value))
    IN  IF ~QLess(QRat(0 - 2, 10), worst_case_change)
        THEN <<Recommendation("Your portfolio may be vulnerable to a {worst_name} scenario. Consider adding more defensive assets.",
                              worst.name)>>
        ELSE <<>>

\* "if worst_case_change < -0.2"
VulnerabilityRecommendation(worst, total_value) ==
    LET worst_case_change ==
            QDiv(QSub(worst.final_value, QInt(total_value)), QInt(total_value))
    IN  IF QLess(worst_case_change, QRat(0 - 2, 10))
        THEN <<Recommendation("Your portfolio may be vulnerable to a {worst_name} scenario. Consider adding more defensive assets.",
                              worst.name)>>
        ELSE <<>>

\* the recommendation for one named scenario: "if name in scenario_results and
\* scenario_results[name]["probability"] > 0.1"
ExposureRecommendation(scenario_results, name, message) ==
    LET probability == Probability(scenario_results, name)
    IN  IF probability # None /\ QLess(QRat(1, 10), probability)
        THEN <<Recommendation(message, name)>>
        ELSE <<>>

ShortfallRecommendation(expected, total_value, horizon) ==
    IF ReturnShortfall(expected, total_value, horizon)
    THEN <<Recommendation("Your expected returns may be lower than traditional benchmarks. Consider reviewing your asset allocation.",
                          "")>>
    ELSE <<>>

\* the value returned by the "except Exception" clause
ScenarioFallback(error) ==
    [status |-> "except",
     error |-> error,
     scenarios |-> <<"Error">>,
     chart_data |-> None,
     recommendations |-> <<Recommendation("Try again with a revised portfolio.", "")>>]

generate_economic_scenario_analysis(p, horizon) ==
    LET total_value == SumAmounts(p)
        portfolio_categories == GroupByCategory(p)
    IN  IF total_value = 0
        \* amount / total_value for a non-empty portfolio, otherwise
        \* (final_value - total_value) / total_value
        THEN ScenarioFallback("ZeroDivisionError")
        ELSE
        LET scenario_results == ScenarioResults(portfolio_categories, total_value, horizon)
            expected == expected_value(scenario_results, QInt(0))
            chart_data == ScenarioChart(scenario_results, total_value, horizon)
            worst == worst_scenario(Tail(scenario_results), scenario_results[1])
        IN  IF horizon = 0
            \* 1 / time_horizon_years
            THEN ScenarioFallback("ZeroDivisionError")
            ELSE [status |-> "ok",
                  scenarios |-> [s \in DOMAIN scenario_config |-> scenario_config[s].name],
                  scenario_results |-> scenario_results,
                  expected_value |-> expected,
                  chart_data |-> chart_data,
                  recommendations |->
                      VulnerabilityRecommendation(worst, total_value)
                      \o ExposureRecommendation(scenario_results, "Recession",
                             "Given the recession risk, consider increasing allocation to defensive sectors (utilities, consumer staples) and gold.")
                      \o ExposureRecommendation(scenario_results, "High Inflation",
                             "With inflation risk present, consider adding TIPS, commodities, or real estate to protect purchasing power.")
                      \o ShortfallRecommendation(expected, total_value, horizon)]

(***************************************************************************)
(* calculate_modern_portfolio_theory_metrics (src/advanced_analytics.py).  *)
(*                                                                         *)
(* A holding may carry a "ticker" key.  The historical prices come from    *)
(* yf.download and the statistics of the daily returns from pandas: the    *)
(* model takes the statistics as the answer to the request, any answer     *)
(* being possible, and computes from them what the function computes.      *)
(***************************************************************************)
TickerItem(name, category, amount, ticker) ==
    [name |-> name, category |-> category, amount |-> amount, ticker |-> ticker]

\* 'ticker' in item
HasTickerKey(item) == "ticker" \in DOMAIN item

\* sum(item['amount'] for item in portfolio if 'ticker' in item)
RECURSIVE SumTickerAmounts(_)
SumTickerAmounts(p) ==
    IF p = <<>> THEN 0
    ELSE (IF HasTickerKey(p[1]) THEN p[1].amount ELSE 0) + SumTickerAmounts(Tail(p))

\* the holdings "if 'ticker' in item" alone, without "and item['ticker']"
TickerHoldings_AnyKey(p) == SelectSeq(p, LAMBDA item : HasTickerKey(item))

\* the holdings with "'ticker' in item and item['ticker']"
TickerHoldings(p) == SelectSeq(p, LAMBDA item : HasTickerKey(item) /\ item.ticker # "")

\* tickers, in the order of the holdings (a ticker held twice is listed twice)
Tickers(p) == [i \in DOMAIN TickerHoldings(p) |-> TickerHoldings(p)[i].ticker]

\* ticker_weights[ticker] = item['amount'] / total_value: the last holding of a
\* ticker sets its weight
TickerWeight(p, total_value, ticker) ==
    LET held == TickerHoldings(p)
        last == CHOOSE i \in DOMAIN held :
                    /\ held[i].ticker = ticker
                    /\ \A j \in DOMAIN held : held[j].ticker = ticker => j <= i
    IN  QRat(held[last].amount, total_value)

\* the result dict as initialised
EmptyMetrics ==
    [status |-> "ok",
     sharpe_ratio |-> None, beta |-> None, alpha |-> None, r_squared |-> None,
     treynor_ratio |-> None, risk_metrics |-> <<>>, correlation_matrix |-> None,
     efficient_frontier |-> None]

\* result["error"] = "No ticker symbols found in portfolio for MPT analysis."
NoTickers ==
    EmptyMetrics @@ [error |-> "No ticker symbols found in portfolio for MPT analysis."]

\* the keys of ticker_weights, in the order of their first insertion
RECURSIVE DistinctTickers(_, _)
DistinctTickers(tickers, seen) ==
    IF tickers = <<>> THEN <<>>
    ELSE IF tickers[1] \in seen THEN DistinctTickers(Tail(tickers), seen)
    ELSE <<tickers[1]>> \o DistinctTickers(Tail(tickers), seen \cup {tickers[1]})

risk_free_rate == QRat(4, 100)

TradingDays == 252

\* (1 + daily) ** 252 - 1
Annualized(daily) == QSub(QPow(QAdd(QInt(1), daily), TradingDays), QInt(1))

\* stock_risk_metrics[ticker], from the statistics of the ticker's daily returns
StockRiskMetrics(data, ticker) ==
    LET returns == data.stock_returns[ticker]
        annualized_return == Annualized(returns.mean)
        beta == QDiv(returns.covariance, data.market_variance)
        expected_return ==
            QAdd(risk_free_rate,
                 QMul(beta, QSub(QMul(data.market_mean, QInt(TradingDays)), risk_free_rate)))
    IN  [annualized_return |-> annualized_return,
         annualized_volatility |-> [std |-> returns.std, times_sqrt |-> TradingDays],
         beta |-> beta,
         alpha |-> QSub(annualized_return, expected_return)]

\* the loop "for ticker, weight in ticker_weights.items()", for one of the three
\* sums: value[ticker] * weight added for each ticker that has risk metrics
RECURSIVE PortfolioSum(_, _, _, _, _)
PortfolioSum(tickers, p, total_value, value, sum) ==
    IF tickers = <<>> THEN sum
    ELSE PortfolioSum(Tail(tickers), p, total_value, value,
                      QAdd(sum, QMul(value[tickers[1]],
                                     TickerWeight(p, total_value, tickers[1]))))

\* x / y of numpy floats: a division by zero gives inf, -inf or nan, no exception
NumpyDiv(x, y) ==
    IF ~QIsZero(y) THEN QDiv(x, y)
    ELSE IF QIsZero(x) THEN [special |-> "nan"]
    ELSE IF x.neg THEN [special |-> "-inf"]
    ELSE [special |-> "inf"]

\* the Treynor ratio computed whatever the beta
treynor_ratio_Unguarded(portfolio_return, portfolio_beta) ==
    NumpyDiv(QSub(portfolio_return, risk_free_rate), portfolio_beta)

\* (portfolio_return - risk_free_rate) / portfolio_beta if portfolio_beta != 0 else None
treynor_ratio(portfolio_return, portfolio_beta) ==
    IF ~QIsZero(portfolio_beta)
    THEN QDiv(QSub(portfolio_return, risk_free_rate), portfolio_beta)
    ELSE None

\* the function returns before the download: "if total_value == 0" or "if not tickers"
ShortCircuits(p) == SumTickerAmounts(p) = 0 \/ Tickers(p) = <<>>

\* the tickers passed to yf.download, None when the function returns before it
DownloadRequest(p) ==
    IF ShortCircuits(p) THEN None
    ELSE [tickers |-> Tickers(p) \o <<"^GSPC">>]

\* x > y for a numpy quotient x and a fraction y
NumpyGreater(x, y) ==
    IF "special" \in DOMAIN x THEN x.special = "inf" ELSE QLess(y, x)

\* the value returned by the "except Exception" clause
MetricsFallback ==
    EmptyMetrics @@
    [error |-> "Error calculating MPT metrics",
     key_metrics |-> [sharpe_ratio |-> QInt(0), beta |-> QInt(0), alpha |-> QInt(0),
                      r_squared |-> QInt(0), std_dev |-> QInt(0),
                      sharpe_ratio_context |-> "Error", beta_context |-> "Error",
                      alpha_context |-> "Error", std_dev_context |-> "Error",
                      r_squared_context |-> "Error"]]

\* a float that is not a number
NaN == [special |-> "nan"]

IsNumber(x) == "special" \notin DOMAIN x

\* the columns of the price table in their order (sorted by ticker)
TickerColumns == <<"AAPL", "MSFT">>

num_portfolios == 20

\* random_weights = np.random.random(len(tickers) - 1); random_weights /= np.sum(random_weights)
\* for the draw raw: one weight per entry of tickers before "^GSPC" was appended
RECURSIVE SumDraw(_, _)
SumDraw(raw, n) == IF n = 0 THEN 0 ELSE raw[n] + SumDraw(raw, n - 1)

random_weights(raw, n) == [i \in 1..n |-> QRat(raw[i], SumDraw(raw, n))]

\* port_return: random_weights[i] * stock_returns[ticker].mean() * 252 summed
\* over enumerate(stock_returns.columns)
RECURSIVE port_return(_, _, _, _)
port_return(weights, column_seq, mean, i) ==
    IF i = 0 THEN QInt(0)
    ELSE QAdd(port_return(weights, column_seq, mean, i - 1),
              QMul(QMul(weights[i], mean[column_seq[i]]), QInt(TradingDays)))

\* the efficient frontier: num_portfolios sampled points and the portfolio's own
\* point.  A point of the code holds its return and volatility; the model keeps
\* with a sampled point the weights it was computed from.
EfficientFrontier(weights, sampled_return, portfolio_return, portfolio_volatility) ==
    [i \in 1..num_portfolios |->
        [return |-> sampled_return,
         volatility |-> "np.sqrt(port_variance)",
         weights |-> weights,
         is_current |-> FALSE]]
    \o <<[return |-> portfolio_return,
          volatility |-> portfolio_volatility,
          weights |-> <<>>,
          is_current |-> TRUE]>>

\* the result when dropna() leaves no row of daily returns: every statistic is
\* nan, and every comparison with nan is false
NanMetrics(p, columns, data, raw) ==
    LET shapes_differ == Len(Tickers(p)) # Cardinality(columns)
        stored ==
            [status |-> "ok",
             sharpe_ratio |-> NaN,
             beta |-> NaN,
             alpha |-> NaN,
             r_squared |-> NaN,
             treynor_ratio |-> NaN,
             risk_metrics |-> [t \in columns |->
                                  [annualized_return |-> NaN, annualized_volatility |-> NaN,
                                   beta |-> NaN, alpha |-> NaN]],
             correlation_matrix |-> data.correlation_matrix,
             portfolio_return |-> NaN,
             portfolio_volatility |-> NaN]
    IN  IF shapes_differ
        THEN stored @@ [efficient_frontier |-> None,
                        error |-> MetricsFallback.error,
                        key_metrics |-> MetricsFallback.key_metrics]
        ELSE stored @@
        [efficient_frontier |->
             EfficientFrontier(random_weights(raw, Len(Tickers(p))), NaN, NaN, NaN),
         key_metrics |-> [sharpe_ratio |-> NaN, beta |-> NaN, alpha |-> NaN,
                          r_squared |-> NaN, std_dev |-> NaN,
                          sharpe_ratio_context |-> "-0.2",
                          beta_context |-> "Aggressive",
                          alpha_context |-> "-1.8%",
                          std_dev_context |-> "Higher than benchmark",
                          r_squared_context |-> "Market dependent"]]

\* data is the answer to the download: its status, the tickers it has no
\* prices for and how their columns come back, and the statistics of the daily
\* returns; raw is the draw of np.random.random
calculate_modern_portfolio_theory_metrics(p, data, raw) ==
    LET total_value == SumTickerAmounts(p) IN
    IF total_value = 0 THEN NoTickers
    ELSE IF Tickers(p) = <<>> THEN NoTickers
    ELSE IF data.status = "raised" THEN MetricsFallback
    ELSE
    LET requested == {t \in DOMAIN data.stock_returns :
                         \E i \in DOMAIN Tickers(p) : Tickers(p)[i] = t}
        lacking == requested \cap data.no_data
    IN
    \* a column of nan: pct_change().dropna() drops every row
    IF lacking # {} /\ data.missing = "nan column" THEN NanMetrics(p, requested, data, raw)
    ELSE
    LET columns == requested \ data.no_data
        column_seq == SelectSeq(TickerColumns, LAMBDA t : t \in columns)
        stock_risk_metrics == [t \in columns |-> StockRiskMetrics(data, t)]
        weighted == SelectSeq(DistinctTickers(Tickers(p), {}), LAMBDA t : t \in columns)
        Mean == [t \in columns |-> data.stock_returns[t].mean]
        Beta == [t \in columns |-> stock_risk_metrics[t].beta]
        Alpha == [t \in columns |-> stock_risk_metrics[t].alpha]
        portfolio_daily_return == PortfolioSum(weighted, p, total_value, Mean, QInt(0))
        portfolio_beta == PortfolioSum(weighted, p, total_value, Beta, QInt(0))
        portfolio_alpha == PortfolioSum(weighted, p, total_value, Alpha, QInt(0))
        portfolio_return == Annualized(portfolio_daily_return)
        portfolio_volatility == data.portfolio_volatility
        sharpe_ratio == NumpyDiv(QSub(portfolio_return, risk_free_rate), portfolio_volatility)
        r_squared == QMul(data.correlation, data.correlation)
        \* np.random.random(len(tickers) - 1) against the columns of cov_matrix:
        \* np.dot raises when the two lengths differ (a ticker held twice, or a
        \* ticker without a column)
        shapes_differ == Len(Tickers(p)) # Cardinality(columns)
        weights == random_weights(raw, Len(Tickers(p)))
        stored ==
            [status |-> "ok",
             sharpe_ratio |-> sharpe_ratio,
             beta |-> portfolio_beta,
             alpha |-> QMul(portfolio_alpha, QInt(100)),
             r_squared |-> r_squared,
             treynor_ratio |-> treynor_ratio(portfolio_return, portfolio_beta),
             risk_metrics |-> stock_risk_metrics,
             correlation_matrix |-> data.correlation_matrix,
             portfolio_return |-> portfolio_return,
             portfolio_volatility |-> portfolio_volatility]
    IN  IF shapes_differ
        THEN stored @@ [efficient_frontier |-> None,
                        error |-> MetricsFallback.error,
                        key_metrics |-> MetricsFallback.key_metrics]
        ELSE stored @@
        [efficient_frontier |->
             EfficientFrontier(weights,
                               port_return(weights, column_seq, Mean, Len(column_seq)),
                               portfolio_return, portfolio_volatility),
         key_metrics |-> [sharpe_ratio |-> sharpe_ratio,
                          beta |-> portfolio_beta,
                          alpha |-> QMul(portfolio_alpha, QInt(100)),
                          r_squared |-> r_squared,
                          std_dev |-> QMul(portfolio_volatility, QInt(100)),
                          sharpe_ratio_context |->
                              IF NumpyGreater(sharpe_ratio, QInt(1)) THEN "+0.3" ELSE "-0.2",
                          beta_context |->
                              IF QLess(portfolio_beta, QInt(1)) THEN "Defensive"
                              ELSE "Aggressive",
                          alpha_context |->
                              IF QLess(QInt(0), portfolio_alpha) THEN "+2.1%" ELSE "-1.8%",
                          std_dev_context |->
                              IF QLess(portfolio_volatility, QRat(15, 100))
                              THEN "Lower than benchmark" ELSE "Higher than benchmark",
                          r_squared_context |->
                              IF QLess(r_squared, QRat(7, 10)) THEN "Diversified"
                              ELSE "Market dependent"]]

(***************************************************************************)
(* The inputs: a sample portfolio extended by up to MaxAdded holdings.     *)
(***************************************************************************)
Categories == {"Large Cap", "Mid Cap", "Small Cap", "Gold", "ETFs/Crypto", "Other"}

RiskProfiles == {LOW, MEDIUM, HIGH, ""}

Horizons == (0 - 1)..MaxHorizon

Holdings == {Item("Added", c, a) : c \in Categories, a \in 0..MaxAmount}

SamplePortfolios ==
    { <<>>,
      <<Item("Index", "Large Cap", 10000)>>,
      <<Item("Index", "Large Cap", 20), Item("Fund", "Mid Cap", 2), Item("Fund", "Mid Cap", 2)>>,
      <<Item("L", "Large Cap", 4), Item("M", "Mid Cap", 4), Item("S", "Small Cap", 4),
        Item("S", "Small Cap", 3), Item("E", "ETFs/Crypto", 3), Item("G", "Gold", 2)>> }

RECURSIVE SeqsUpTo(_, _)
SeqsUpTo(S, n) ==
    IF n = 0 THEN {<<>>}
    ELSE LET shorter == SeqsUpTo(S, n - 1)
         IN  shorter \cup {Append(q, x) : q \in {r \in shorter : Len(r) = n - 1}, x \in S}

Init ==
    /\ \E sample \in SamplePortfolios, added \in SeqsUpTo(Holdings, MaxAdded) :
          portfolio = sample \o added
    /\ risk_profile \in RiskProfiles
    /\ time_horizon_years = 5
    /\ analysis_result = None
    /\ recommendations = None
    /\ prediction = None
    /\ scenario_analysis = None
    /\ price_data = None
    /\ mpt_metrics = None
    /\ NoAlerts /\ NoGoal /\ NoApplication

\* an analyze_portfolio that takes the holdings off the list it is given
Analyze_Consuming ==
    /\ analysis_result = None
    /\ prediction = None
    /\ scenario_analysis = None
    /\ analysis_result' = analyze_portfolio(portfolio, risk_profile)
    /\ portfolio' = <<>>
    /\ UNCHANGED <<risk_profile, time_horizon_years, recommendations, prediction,
                   scenario_analysis, price_data, mpt_metrics>>
    /\ UNCHANGED <<alert_vars, goal_vars, app_vars>>

\* analysis_result = analyze_portfolio(portfolio, risk_profile)
Analyze ==
    /\ analysis_result = None
    /\ prediction = None
    /\ scenario_analysis = None
    /\ analysis_result' = analyze_portfolio(portfolio, risk_profile)
    /\ UNCHANGED <<portfolio, risk_profile, time_horizon_years, recommendations, prediction,
                   scenario_analysis, price_data, mpt_metrics>>
    /\ UNCHANGED <<alert_vars, goal_vars, app_vars>>

\* recommendations = get_allocation_recommendation(portfolio, analysis_result)
Recommend ==
    /\ analysis_result.status = "ok"
    /\ recommendations = None
    /\ recommendations' = get_allocation_recommendation(portfolio, analysis_result)
    /\ UNCHANGED <<portfolio, risk_profile, time_horizon_years, analysis_result, prediction,
                   scenario_analysis, price_data, mpt_metrics>>
    /\ UNCHANGED <<alert_vars, goal_vars, app_vars>>

\* prediction = predict_portfolio_performance(portfolio, risk_profile, time_horizon_years)
Predict ==
    \E h \in Horizons :
        /\ analysis_result = None
        /\ prediction = None
        /\ scenario_analysis = None
        /\ time_horizon_years' = h
        /\ prediction' = predict_portfolio_performance(portfolio, risk_profile, h)
        /\ UNCHANGED <<portfolio, risk_profile, analysis_result, recommendations,
                       scenario_analysis, price_data, mpt_metrics>>
        /\ UNCHANGED <<alert_vars, goal_vars, app_vars>>

Next == Analyze \/ Recommend \/ Predict

Spec == Init /\ [][Next]_vars

(***************************************************************************)
(* The four engines applied to one portfolio, under the risk profile the   *)
(* session starts with (the scenario engine takes no risk profile).        *)
(***************************************************************************)
\* the holdings added for the scenario analysis: a defensive category, the
\* most volatile one and one the engine has no return for
ScenarioHoldings ==
    {Item("Added", c, a) : c \in {"Gold", "ETFs/Crypto", "Other"}, a \in 1..MaxAmount}

InitScenario ==
    /\ \E sample \in SamplePortfolios, added \in SeqsUpTo(ScenarioHoldings, MaxAdded) :
          portfolio = sample \o added
    /\ risk_profile = ""
    /\ time_horizon_years = 5
    /\ analysis_result = None
    /\ recommendations = None
    /\ prediction = None
    /\ scenario_analysis = None
    /\ price_data = None
    /\ mpt_metrics = None
    /\ NoAlerts /\ NoGoal /\ NoApplication

\* scenario_analysis = generate_economic_scenario_analysis(portfolio, time_horizon_years)
Scenarios ==
    \E h \in Horizons :
        /\ analysis_result = None
        /\ prediction = None
        /\ scenario_analysis = None
        /\ time_horizon_years' = h
        /\ scenario_analysis' = generate_economic_scenario_analysis(portfolio, h)
        /\ UNCHANGED <<portfolio, risk_profile, analysis_result, recommendations, prediction,
                       price_data, mpt_metrics>>
        /\ UNCHANGED <<alert_vars, goal_vars, app_vars>>

NextScenario == Scenarios

\* the scenario analysis alone
SpecScenario == InitScenario /\ [][NextScenario]_vars

NextFunctions == Analyze \/ Recommend \/ Predict \/ Scenarios

\* the four functions over the same portfolios
SpecFunctions == InitScenario /\ [][NextFunctions]_vars

(***************************************************************************)
(* The risk statistics of a portfolio whose holdings may carry tickers,    *)
(* for every answer of the download.                                       *)
(***************************************************************************)
TickerSymbols == {"AAPL", "MSFT"}

TickerSamples ==
    { <<>>,
      <<Item("Index", "Large Cap", 10000)>>,
      <<TickerItem("Apple", "Large Cap", 1, "AAPL"),
        TickerItem("Microsoft", "Large Cap", 1, "MSFT")>> }

AddedTickerHoldings ==
    {Item("Added", "Large Cap", a) : a \in 0..MaxAmount}
    \cup {TickerItem("Added", "Large Cap", a, t) : a \in 0..MaxAmount, t \in {"", "AAPL"}}

\* the statistics of one ticker's daily returns
Statistics(mean, covariance) ==
    [mean |-> QInt(mean), covariance |-> QInt(covariance), std |-> QRat(1, 100)]

\* the statistics of the two tickers in the sample answers: flat prices with
\* every sign of the two covariances, and AAPL doubling daily
SampleStatistics ==
    {<<m, ca, cm>> \in {0, 1} \X {0 - 1, 0, 1} \X {0 - 1, 0, 1} :
        m = 0 \/ (ca = 1 /\ cm = 1)}

\* prices for every ticker but those of no_data, whose columns come back as
\* missing says
Prices(s, no_data, missing) ==
    [status |-> "ok",
     no_data |-> no_data,
     missing |-> missing,
     stock_returns |-> [t \in TickerSymbols |->
                           IF t = "AAPL" THEN Statistics(s[1], s[2])
                           ELSE Statistics(0, s[3])],
     market_variance |-> QInt(2),
     market_mean |-> QRat(1, 1000),
     portfolio_volatility |-> QRat(s[1], 5),
     correlation |-> QRat(1, 2),
     correlation_matrix |-> "daily_returns.corr()"]

\* the answers of the download: an exception, prices for every ticker, or no
\* prices for MSFT, its column being full of nan or absent
Answers ==
    {[status |-> "raised"]}
    \cup {Prices(s, {}, "") : s \in SampleStatistics}
    \cup {Prices(<<0, 1, 1>>, {"MSFT"}, missing) : missing \in {"nan column", "no column"}}

\* the draws of np.random.random for n weights
Draws(n) == {[i \in 1..n |-> 1], [i \in 1..n |-> i]}

InitMPT ==
    /\ \E sample \in TickerSamples, added \in SeqsUpTo(AddedTickerHoldings, MaxAdded) :
          portfolio = sample \o added
    /\ risk_profile = ""
    /\ time_horizon_years = 5
    /\ analysis_result = None
    /\ recommendations = None
    /\ prediction = None
    /\ scenario_analysis = None
    /\ price_data = None
    /\ mpt_metrics = None
    /\ NoAlerts /\ NoGoal /\ NoApplication

\* mpt_metrics = calculate_modern_portfolio_theory_metrics(portfolio); price_data
\* records the download, if one was requested
Metrics ==
    \E data \in Answers, raw \in Draws(Len(Tickers(portfolio))) :
        /\ mpt_metrics = None
        /\ mpt_metrics' = calculate_modern_portfolio_theory_metrics(portfolio, data, raw)
        /\ price_data' = IF DownloadRequest(portfolio) = None THEN None
                         ELSE [request |-> DownloadRequest(portfolio), answer |-> data]
        /\ UNCHANGED <<portfolio, risk_profile, time_horizon_years, analysis_result,
                       recommendations, prediction, scenario_analysis>>
        /\ UNCHANGED <<alert_vars, goal_vars, app_vars>>

NextMPT == Metrics

SpecMPT == InitMPT /\ [][NextMPT]_vars

(***************************************************************************)
(* Price alerts (src/price_alerts.py): the price_alerts table and the      *)
(* functions that write it.  An alert's id is its position in the table.   *)
(***************************************************************************)
MaxAlerts == 2

AlertTickers == {"AAPL", "MSFT"}

AlertTypes == {"above", "below", "at"}

TargetPrices == {2}

\* a price below, at and above the target
AlertPrices == {1, 2, 3}

\* the price maps handed to check_price_alerts: no ticker, one ticker or every
\* ticker has a price, and the tickers that have one are at the same price
PriceMaps ==
    {[ticker \in held |-> price] : held \in {{}, {"AAPL"}, AlertTickers}, price \in AlertPrices}

\* a row of price_alerts as create_price_alert adds it
PriceAlert(id, ticker, target_price, alert_type) ==
    [id |-> id, ticker |-> ticker, target_price |-> target_price, alert_type |-> alert_type,
     is_active |-> TRUE, is_triggered |-> FALSE]

\* the condition check_price_alerts tests for an alert whose ticker has a price
condition_holds(alert, current_price) ==
    \/ alert.alert_type = "above" /\ current_price >= alert.target_price
    \/ alert.alert_type = "below" /\ current_price <= alert.target_price

\* a query that also takes the alerts already triggered
active_alerts_AnyTriggered(table) ==
    SelectSeq(table, LAMBDA alert : alert.is_active)

\* session.query(PriceAlert).filter_by(is_active=True, is_triggered=False).all()
active_alerts(table) ==
    SelectSeq(table, LAMBDA alert : alert.is_active /\ ~alert.is_triggered)

\* check_price_alerts(prices): the table it leaves and the list it returns
check_price_alerts(table, prices) ==
    LET hit(alert) == /\ alert.ticker \in DOMAIN prices
                      /\ condition_holds(alert, prices[alert.ticker])
        hits == SelectSeq(active_alerts(table), hit)
        hit_ids == {hits[k].id : k \in 1..Len(hits)}
    IN  [alerts |-> [i \in 1..Len(table) |->
                        IF i \in hit_ids THEN [table[i] EXCEPT !.is_triggered = TRUE]
                        ELSE table[i]],
         triggered_alerts |->
             [k \in 1..Len(hits) |->
                 [id |-> hits[k].id, ticker |-> hits[k].ticker,
                  target_price |-> hits[k].target_price,
                  current_price |-> prices[hits[k].ticker],
                  alert_type |-> hits[k].alert_type]]]

InitAlerts ==
    /\ portfolio = <<>>
    /\ risk_profile = ""
    /\ time_horizon_years = 5
    /\ analysis_result = None
    /\ recommendations = None
    /\ prediction = None
    /\ scenario_analysis = None
    /\ price_data = None
    /\ mpt_metrics = None
    /\ NoAlerts /\ NoGoal /\ NoApplication

\* create_price_alert(user_id, ticker, target_price, alert_type): an alert_type
\* other than 'above' and 'below' raises ValueError before a row is added
CreatePriceAlert ==
    \E ticker \in AlertTickers, target_price \in TargetPrices, alert_type \in AlertTypes :
        /\ Len(alerts) < MaxAlerts
        /\ alert_type \in {"above", "below"}
        /\ alerts' = Append(alerts, PriceAlert(Len(alerts) + 1, ticker, target_price, alert_type))
        /\ UNCHANGED <<current_prices, triggered_alerts, returned_alerts>>
        /\ UNCHANGED <<analytics_vars, goal_vars, app_vars>>

\* delete_price_alert(alert_id): an id that is not in the table changes nothing
DeletePriceAlert ==
    \E alert_id \in 1..Len(alerts) :
        /\ alerts' = [alerts EXCEPT ![alert_id].is_active = FALSE]
        /\ UNCHANGED <<current_prices, triggered_alerts, returned_alerts>>
        /\ UNCHANGED <<analytics_vars, goal_vars, app_vars>>

\* mark_alert_triggered(alert_id)
MarkAlertTriggered ==
    \E alert_id \in 1..Len(alerts) :
        /\ alerts' = [alerts EXCEPT ![alert_id].is_triggered = TRUE]
        /\ UNCHANGED <<current_prices, triggered_alerts, returned_alerts>>
        /\ UNCHANGED <<analytics_vars, goal_vars, app_vars>>

\* triggered_alerts = check_price_alerts(current_prices)
CheckPriceAlerts ==
    \E prices \in PriceMaps :
        LET checked == check_price_alerts(alerts, prices)
        IN  /\ current_prices' = prices
            /\ alerts' = checked.alerts
            /\ triggered_alerts' = checked.triggered_alerts
            /\ returned_alerts' = returned_alerts \cup
                   {checked.triggered_alerts[k].id : k \in 1..Len(checked.triggered_alerts)}
            /\ UNCHANGED <<analytics_vars, goal_vars, app_vars>>

NextAlerts == CreatePriceAlert \/ DeletePriceAlert \/ MarkAlertTriggered \/ CheckPriceAlerts

SpecAlerts == InitAlerts /\ [][NextAlerts]_vars

(***************************************************************************)
(* Financial goals (src/goals.py): the monthly investment a goal needs.    *)
(* The years are whole numbers, so that the powers are exact fractions.    *)
(***************************************************************************)
MaxYears == 2

GoalAmounts == {0, 1000, 2000}

\* no return, and the rates of get_expected_return_rate: 6%, 8% and 10%
ReturnRates == {QRat(0, 100), QRat(6, 100), QRat(8, 100), QRat(10, 100)}

\* max(0, x)
QMax0(x) == IF x.neg THEN QInt(0) ELSE x

\* calculate_monthly_investment_needed(target_amount, current_amount, years,
\* expected_return_rate), with goal_target and goal_current for its first two
\* parameters
calculate_monthly_investment_needed(goal_target, goal_current, years, expected_return_rate) ==
    LET months == years * 12
        monthly_rate == QDiv(expected_return_rate, QInt(12))
        amount_needed ==
            QSub(QInt(goal_target),
                 QMul(QInt(goal_current), QPow(QAdd(QInt(1), expected_return_rate), years)))
        discount == QSub(QInt(1), QPow(QAdd(QInt(1), monthly_rate), 0 - months))
    IN  IF QIsZero(monthly_rate)
        THEN IF months = 0
             THEN [status |-> "raised", error |-> "ZeroDivisionError"]
             ELSE [status |-> "ok", value |-> QDiv(amount_needed, QInt(months))]
        ELSE IF QIsZero(discount)
             THEN [status |-> "raised", error |-> "ZeroDivisionError"]
             ELSE [status |-> "ok",
                   value |-> QMax0(QDiv(QMul(amount_needed, monthly_rate), discount))]

InitGoal ==
    /\ portfolio = <<>>
    /\ risk_profile = ""
    /\ time_horizon_years = 5
    /\ analysis_result = None
    /\ recommendations = None
    /\ prediction = None
    /\ scenario_analysis = None
    /\ price_data = None
    /\ mpt_metrics = None
    /\ NoAlerts /\ NoApplication
    /\ goal \in [target_amount : GoalAmounts, current_amount : GoalAmounts,
                 years : 0..MaxYears, expected_return_rate : ReturnRates]
    /\ monthly_investment = None

\* monthly_investment = calculate_monthly_investment_needed(goal.target_amount,
\*     goal.current_amount, years, expected_return_rate)
MonthlyInvestment ==
    /\ monthly_investment = None
    /\ monthly_investment' =
           calculate_monthly_investment_needed(goal.target_amount, goal.current_amount,
                                               goal.years, goal.expected_return_rate)
    /\ UNCHANGED <<goal, analytics_vars, alert_vars, app_vars>>

NextGoal == MonthlyInvestment

SpecGoal == InitGoal /\ [][NextGoal]_vars

(***************************************************************************)
(* The Streamlit application (src/app.py).  A step is one user event: the  *)
(* run of main() in which the widget reports it, the handler, and the run  *)
(* that st.rerun() starts when the handler calls it.  s is the session     *)
(* during a run: the keys of st.session_state, the database and the page   *)
(* displayed.  None is 0 for an id and "" for a string.  The user email    *)
(* goes with the user name, the market and the selected stocks and SIPs    *)
(* are left out; so are the goal updates, which write the goals table      *)
(* only, and the widgets nested in another button's branch (the delete     *)
(* confirmation, "Go to Portfolio Management"), which no run can reach.    *)
(***************************************************************************)
MaxHoldings == 1
MaxPortfolios == 1
MaxGoals == 1

Usernames == {"ann"}

\* the options of the risk radio that the user chooses
RiskChoices == {LOW, HIGH}

StockCategories == {"Large Cap", "Gold"}

StockAmounts == {0, 100}

MonthlyAmounts == {0, 50}

MonthsInvested == {0, 2}

GoalRiskLevels == {"High"}

\* the years to the target date of a goal
YearsRemaining == {1}

\* what calculate_monthly_investment_needed returns for a goal that lies ahead:
\* 0 once the goal is covered, a positive amount otherwise
MonthlyInvestments == {0, 25}

Session ==
    [portfolio |-> portfolio,
     risk_profile |-> risk_profile,
     analysis_result |-> analysis_result,
     recommendations |-> recommendations,
     navigation_index |-> session_state.navigation_index,
     selected_category |-> session_state.selected_category,
     is_logged_in |-> session_state.is_logged_in,
     user_id |-> session_state.user_id,
     user_name |-> session_state.user_name,
     current_portfolio_id |-> session_state.current_portfolio_id,
     user_portfolios |-> session_state.user_portfolios,
     database |-> database,
     page |-> page]

\* the session, the database and the page after the step
Becomes(s) ==
    /\ portfolio' = s.portfolio
    /\ risk_profile' = s.risk_profile
    /\ analysis_result' = s.analysis_result
    /\ recommendations' = s.recommendations
    /\ session_state' = [navigation_index |-> s.navigation_index,
                         selected_category |-> s.selected_category,
                         is_logged_in |-> s.is_logged_in,
                         user_id |-> s.user_id,
                         user_name |-> s.user_name,
                         current_portfolio_id |-> s.current_portfolio_id,
                         user_portfolios |-> s.user_portfolios]
    /\ database' = s.database
    /\ page' = s.page
    /\ UNCHANGED <<time_horizon_years, prediction, scenario_analysis, price_data, mpt_metrics>>
    /\ UNCHANGED <<alert_vars, goal_vars>>

\* the screen a run displays and the exception that ended the run, if any
Shown(s, screen, error) == [s EXCEPT !.page = [screen |-> screen, error |-> error]]

(***************************************************************************)
(* The database (src/database.py, src/goals.py): users, portfolios with    *)
(* their investments, and goals.  An id is the position in the table.      *)
(***************************************************************************)
\* get_user_by_username(username): the id, 0 for None
get_user_by_username(db, username) ==
    IF \E id \in 1..Len(db.users) : db.users[id].username = username
    THEN CHOOSE id \in 1..Len(db.users) : db.users[id].username = username
    ELSE 0

\* create_user(username, email, password_hash): risk_profile is left NULL
create_user(db, username) ==
    [db EXCEPT !.users = Append(@, [username |-> username, risk_profile |-> ""])]

\* update_user_risk_profile(user_id, risk_profile)
update_user_risk_profile(db, user_id, rp) ==
    IF user_id \in 1..Len(db.users)
    THEN [db EXCEPT !.users[user_id].risk_profile = rp]
    ELSE db

\* get_user_portfolios(user_id): the ids, in the order of the table
get_user_portfolios(db, user_id) ==
    SelectSeq([id \in 1..Len(db.portfolios) |-> id],
              LAMBDA id : db.portfolios[id].user_id = user_id)

\* create_portfolio(user_id, name, description, market)
create_portfolio(db, user_id) ==
    [db EXCEPT !.portfolios = Append(@, [user_id |-> user_id, investments |-> <<>>])]

\* add_investment(portfolio_id, name, category, amount, investment_type, ticker,
\* monthly_amount, months_invested): the row of a session item; a column that
\* item.get() finds no key for is NULL and is left out of the row
investment(item) ==
    IF "monthly_amount" \in DOMAIN item
    THEN [name |-> item.name, category |-> item.category, amount |-> item.amount,
          investment_type |-> item.type, monthly_amount |-> item.monthly_amount,
          months_invested |-> item.months_invested]
    ELSE [name |-> item.name, category |-> item.category, amount |-> item.amount,
          investment_type |-> item.type]

\* the session item load_portfolio_from_database builds from a row
portfolio_item(inv) ==
    IF /\ inv.investment_type = "SIP"
       /\ "monthly_amount" \in DOMAIN inv
       /\ inv.monthly_amount # 0
       /\ inv.months_invested # 0
    THEN [name |-> inv.name, category |-> inv.category, amount |-> inv.amount,
          type |-> inv.investment_type, monthly_amount |-> inv.monthly_amount,
          months_invested |-> inv.months_invested]
    ELSE [name |-> inv.name, category |-> inv.category, amount |-> inv.amount,
          type |-> inv.investment_type]

\* get_goal_based_allocation(risk_level, timeline_years)
get_goal_based_allocation(risk_level, timeline_years) ==
    LET table(large, mid, small, gold, crypto, bonds) ==
            <<Entry("Large Cap", large), Entry("Mid Cap", mid), Entry("Small Cap", small),
              Entry("Gold", gold), Entry("ETFs/Crypto", crypto),
              Entry("Bonds/Fixed Income", bonds)>>
    IN  IF timeline_years < 5
        THEN IF risk_level = "Low" THEN table(30, 15, 5, 15, 5, 30)
             ELSE IF risk_level = "Medium" THEN table(40, 20, 10, 10, 5, 15)
             ELSE table(40, 25, 20, 5, 10, 0)
        ELSE IF timeline_years < 15
        THEN IF risk_level = "Low" THEN table(35, 20, 10, 10, 5, 20)
             ELSE IF risk_level = "Medium" THEN table(35, 30, 20, 5, 5, 5)
             ELSE table(25, 30, 30, 5, 10, 0)
        ELSE IF risk_level = "Low" THEN table(40, 25, 15, 10, 5, 5)
             ELSE IF risk_level = "Medium" THEN table(30, 30, 25, 5, 10, 0)
             ELSE <<Entry("Large Cap", 20), Entry("Mid Cap", 30), Entry("Small Cap", 35),
                    Entry("ETFs/Crypto", 15), Entry("Gold", 0),
                    Entry("Bonds/Fixed Income", 0)>>

\* create_goal_based_portfolio(user_id, goal_name, allocation, market): a
\* portfolio with one placeholder investment of amount 0 per category; the
\* name f"{category} Allocation" is written as the category
create_goal_based_portfolio(db, user_id, allocation) ==
    [db EXCEPT !.portfolios =
        Append(@, [user_id |-> user_id,
                   investments |->
                       [i \in 1..Len(allocation) |->
                           [name |-> allocation[i].category,
                            category |-> allocation[i].category,
                            investment_type |-> "Stock/ETF", amount |-> 0]]])]

\* create_financial_goal(user_id, name, description, target_amount,
\* timeline_years, risk_level)
create_financial_goal(db, user_id, risk_level) ==
    [db EXCEPT !.goals = Append(@, [user_id |-> user_id, risk_level |-> risk_level])]

\* get_user_goals(user_id): the ids
get_user_goals(db, user_id) == {id \in 1..Len(db.goals) : db.goals[id].user_id = user_id}
(***************************************************************************)
(* main(): the sidebar, then the screen of the navigation index.           *)
(***************************************************************************)
NavigationFull ==
    <<"Welcome", "Risk Profile", "Portfolio Input", "Portfolio Analysis", "Recommendations",
      "Stock Selection", "Summary", "Portfolio Management", "Financial Goals">>

NavigationLimited == <<"Welcome", "Risk Profile", "Portfolio Management">>

NavigationLoggedOut ==
    <<"Welcome", "Risk Profile", "Portfolio Input", "Portfolio Analysis", "Recommendations",
      "Stock Selection", "Summary">>

NavigationLoggedOutLimited == <<"Welcome", "Risk Profile">>

\* the options of the navigation radio that main() displays
navigation_options(s) ==
    IF s.is_logged_in
    THEN IF s.risk_profile # "" THEN NavigationFull ELSE NavigationLimited
    ELSE IF s.risk_profile # "" THEN NavigationLoggedOut ELSE NavigationLoggedOutLimited

\* nav_options.index(navigation)
IndexOf(options, navigation) ==
    CHOOSE i \in 0..(Len(options) - 1) : options[i + 1] = navigation

\* st.radio(label, options, index=NAVIGATION_INDEX) raises StreamlitAPIException
\* for an index that is not a position of options
radio_raises(s) == s.navigation_index \notin 0..(Len(navigation_options(s)) - 1)

\* the sidebar of a run whose radio index is valid; clicked is the option the
\* user clicked, "" when the user clicked none and the radio returns the
\* option at its index
sidebar(s, clicked) ==
    LET options == navigation_options(s)
        navigation == IF clicked = "" THEN options[s.navigation_index + 1] ELSE clicked
    IN  IF s.is_logged_in
        THEN IF s.risk_profile # ""
             THEN [s EXCEPT !.navigation_index = IndexOf(NavigationFull, navigation)]
             ELSE [s EXCEPT !.navigation_index =
                       IF navigation = "Welcome" THEN 0
                       ELSE IF navigation = "Risk Profile" THEN 1
                       ELSE 7]
        ELSE IF s.risk_profile # ""
             THEN [s EXCEPT !.navigation_index = IndexOf(NavigationLoggedOut, navigation)]
             ELSE s

\* show_portfolio_analysis_screen()
show_portfolio_analysis_screen(s) ==
    IF s.portfolio = <<>> THEN Shown(s, "Portfolio Analysis", "")
    ELSE LET analysed == analyze_portfolio(s.portfolio, s.risk_profile)
         IN  IF analysed.status = "raised"
             THEN Shown(s, "Portfolio Analysis", analysed.error)
             ELSE Shown([s EXCEPT !.analysis_result = analysed], "Portfolio Analysis", "")

\* show_recommendations_screen(): the selectbox returns its first option
show_recommendations_screen(s) ==
    IF s.analysis_result = None THEN Shown(s, "Recommendations", "")
    ELSE LET recommended == get_allocation_recommendation(s.portfolio, s.analysis_result)
             categories == s.analysis_result.target_allocation
         IN  Shown([s EXCEPT !.recommendations = recommended,
                             !.selected_category = categories[1].category],
                   "Recommendations", "")

\* show_portfolio_management_screen(): the list of portfolios is refreshed
show_portfolio_management_screen(s) ==
    Shown([s EXCEPT !.user_portfolios = get_user_portfolios(s.database, s.user_id)],
          "Portfolio Management", "")

\* the second half of main(): the login or register screen for a user who is
\* not logged in (the authentication radio keeps its choice), otherwise the
\* screen of the navigation index
screen(s) ==
    IF ~s.is_logged_in
    THEN Shown(s, IF s.page.screen = "Register" THEN "Register" ELSE "Login", "")
    ELSE IF s.navigation_index = 3 THEN show_portfolio_analysis_screen(s)
    ELSE IF s.navigation_index = 4 THEN show_recommendations_screen(s)
    ELSE IF s.navigation_index = 7 THEN show_portfolio_management_screen(s)
    ELSE IF s.navigation_index \in 0..8
    THEN Shown(s, NavigationFull[s.navigation_index + 1], "")
    ELSE Shown(s, "", "")

\* one run of main()
main(s, clicked) ==
    IF radio_raises(s) THEN Shown(s, "", "StreamlitAPIException")
    ELSE screen(sidebar(s, clicked))

(***************************************************************************)
(* The handlers of the buttons and forms.                                  *)
(***************************************************************************)
\* st.session_state[SESSION_KEYS.NAVIGATION_INDEX] = index
go_to(s, index) == [s EXCEPT !.navigation_index = index]

\* the Logout button
logout(s) ==
    [s EXCEPT !.is_logged_in = FALSE, !.user_id = 0, !.user_name = "",
              !.current_portfolio_id = 0, !.user_portfolios = <<>>, !.navigation_index = 0]

\* the login form, submitted with the user's password
login(s, username) ==
    LET user == get_user_by_username(s.database, username)
    IN  IF user = 0 THEN s
        ELSE [s EXCEPT !.is_logged_in = TRUE, !.user_id = user, !.user_name = username,
                       !.risk_profile = IF s.database.users[user].risk_profile # ""
                                        THEN s.database.users[user].risk_profile ELSE @,
                       !.user_portfolios = get_user_portfolios(s.database, user)]

\* the register form, filled in completely
register(s, username) ==
    IF get_user_by_username(s.database, username) # 0 THEN s
    ELSE LET db == create_user(s.database, username)
         IN  [s EXCEPT !.database = db, !.is_logged_in = TRUE, !.user_id = Len(db.users),
                       !.user_name = username]

\* the Next button of the risk profile screen
set_risk_profile(s, selected_risk) ==
    [s EXCEPT !.risk_profile = selected_risk, !.navigation_index = 2]

\* the add_stock_form
add_stock(s, stock_name, stock_category, investment_amount) ==
    IF stock_name # "" /\ investment_amount > 0
    THEN [s EXCEPT !.portfolio =
             Append(@, [name |-> stock_name, category |-> stock_category,
                        amount |-> investment_amount, type |-> "Stock/ETF"])]
    ELSE s

\* the add_sip_form
add_sip(s, sip_name, sip_category, monthly_amount, months_invested) ==
    LET total_sip_amount == monthly_amount * months_invested
    IN  IF sip_name # "" /\ total_sip_amount > 0
        THEN [s EXCEPT !.portfolio =
                 Append(@, [name |-> sip_name, category |-> sip_category,
                            amount |-> total_sip_amount, monthly_amount |-> monthly_amount,
                            months_invested |-> months_invested, type |-> "SIP"])]
        ELSE s

\* save_current_portfolio_to_database(); the saved recommendation is a table
\* nothing reads back
save_current_portfolio_to_database(s) ==
    IF ~s.is_logged_in \/ s.current_portfolio_id = 0 THEN s
    ELSE LET saved == [s.database EXCEPT
                          !.portfolios[s.current_portfolio_id].investments =
                              [i \in 1..Len(s.portfolio) |-> investment(s.portfolio[i])]]
         IN  [s EXCEPT !.database =
                 IF s.risk_profile # ""
                 THEN update_user_risk_profile(saved, s.user_id, s.risk_profile)
                 ELSE saved]

\* load_portfolio_from_database(portfolio_id)
load_portfolio_from_database(s, portfolio_id) ==
    IF portfolio_id \notin 1..Len(s.database.portfolios) THEN s
    ELSE LET investments == s.database.portfolios[portfolio_id].investments
             user_risk == IF s.user_id \in 1..Len(s.database.users)
                          THEN s.database.users[s.user_id].risk_profile ELSE ""
         IN  [s EXCEPT !.current_portfolio_id = portfolio_id,
                       !.portfolio = [i \in 1..Len(investments) |->
                                         portfolio_item(investments[i])],
                       !.risk_profile = IF @ = "" /\ user_risk # "" THEN user_risk ELSE @]

\* the create_portfolio_form
new_portfolio(s) ==
    LET db == create_portfolio(s.database, s.user_id)
    IN  [s EXCEPT !.database = db, !.current_portfolio_id = Len(db.portfolios),
                  !.portfolio = <<>>]

\* the Start Over button
start_over(s) ==
    [s EXCEPT !.portfolio = <<>>, !.analysis_result = None, !.recommendations = None,
              !.selected_category = "", !.navigation_index = 0]

\* the "Use This Allocation for My Portfolio" button: the amounts are
\* (percentage / 100) * monthly_investment * 12, whole numbers for the monthly
\* investments of the model
use_allocation(s, goal_id, years_remaining, monthly_needed) ==
    LET allocation ==
            get_goal_based_allocation(s.database.goals[goal_id].risk_level, years_remaining)
        db == create_goal_based_portfolio(s.database, s.user_id, allocation)
    IN  save_current_portfolio_to_database(
            [s EXCEPT !.database = db,
                      !.current_portfolio_id = Len(db.portfolios),
                      !.portfolio =
                          [i \in 1..Len(allocation) |->
                              [name |-> allocation[i].category,
                               category |-> allocation[i].category,
                               amount |-> (allocation[i].value * monthly_needed * 12) \div 100,
                               type |-> "Stock/ETF"]]])
(***************************************************************************)
(* The events.  A widget can be used when the last run displayed it; the   *)
(* run that reports the event passes the sidebar first.                    *)
(***************************************************************************)
InitApp ==
    /\ portfolio = <<>>
    /\ risk_profile = ""
    /\ time_horizon_years = 5
    /\ analysis_result = None
    /\ recommendations = None
    /\ prediction = None
    /\ scenario_analysis = None
    /\ price_data = None
    /\ mpt_metrics = None
    /\ NoAlerts /\ NoGoal
    /\ session_state = [navigation_index |-> 0, selected_category |-> "",
                        is_logged_in |-> FALSE, user_id |-> 0, user_name |-> "",
                        current_portfolio_id |-> 0, user_portfolios |-> <<>>]
    /\ database = [users |-> <<>>, portfolios |-> <<>>, goals |-> <<>>]
    /\ page = [screen |-> "Login", error |-> ""]

Displays(name) == page.screen = name /\ page.error = ""

SidebarDisplayed == page.error # "StreamlitAPIException"

\* a button or form whose handler ends in st.rerun()
Press(handler(_)) ==
    LET before == main(Session, "")
    IN  IF before.page.error # "" THEN Becomes(before)
        ELSE Becomes(main(handler(before), ""))

\* a button whose handler lets the run go on
PressWithoutRerun(handler(_)) ==
    LET before == main(Session, "")
    IN  IF before.page.error # "" THEN Becomes(before)
        ELSE Becomes(handler(before))

\* the user clicks an option of the navigation radio
Navigate ==
    \E i \in 1..Len(navigation_options(Session)) :
        /\ SidebarDisplayed
        /\ Becomes(main(Session, navigation_options(Session)[i]))

Logout ==
    /\ SidebarDisplayed
    /\ session_state.is_logged_in
    /\ Press(logout)

\* the user clicks an option of the authentication radio
ChooseAuthentication ==
    \E auth_nav \in {"Login", "Register"} :
        /\ SidebarDisplayed
        /\ ~session_state.is_logged_in
        /\ Becomes(main(Shown(Session, auth_nav, ""), ""))

Login ==
    \E username \in Usernames :
        /\ Displays("Login")
        /\ Press(LAMBDA s : login(s, username))

Register ==
    \E username \in Usernames :
        /\ Displays("Register")
        /\ Press(LAMBDA s : register(s, username))

GetStarted ==
    /\ Displays("Welcome")
    /\ Press(LAMBDA s : go_to(s, 1))

SetRiskProfile ==
    \E selected_risk \in RiskChoices :
        /\ Displays("Risk Profile")
        /\ Press(LAMBDA s : set_risk_profile(s, selected_risk))

AddStock ==
    \E stock_category \in StockCategories, investment_amount \in StockAmounts :
        /\ Displays("Portfolio Input")
        /\ Len(portfolio) < MaxHoldings
        /\ Press(LAMBDA s : add_stock(s, "Stock", stock_category, investment_amount))

AddSIP ==
    \E monthly_amount \in MonthlyAmounts, months_invested \in MonthsInvested :
        /\ Displays("Portfolio Input")
        /\ Len(portfolio) < MaxHoldings
        /\ Press(LAMBDA s : add_sip(s, "Fund", "Mid Cap", monthly_amount, months_invested))

ClearPortfolio ==
    /\ Displays("Portfolio Input")
    /\ Press(LAMBDA s : [s EXCEPT !.portfolio = <<>>])

\* the button is displayed for a logged-in user with a current portfolio and
\* disabled for an empty list of holdings
SavePortfolio ==
    /\ Displays("Portfolio Input")
    /\ session_state.is_logged_in
    /\ session_state.current_portfolio_id # 0
    /\ portfolio # <<>>
    /\ Press(save_current_portfolio_to_database)

\* disabled for an empty list of holdings
AnalyzePortfolio ==
    /\ Displays("Portfolio Input")
    /\ portfolio # <<>>
    /\ Press(LAMBDA s : go_to(s, 3))

BackToPortfolioInput ==
    /\ Displays("Portfolio Analysis")
    /\ portfolio = <<>>
    /\ Press(LAMBDA s : go_to(s, 2))

GetRecommendations ==
    /\ Displays("Portfolio Analysis")
    /\ portfolio # <<>>
    /\ Press(LAMBDA s : go_to(s, 4))

BackToAnalysis ==
    /\ Displays("Recommendations")
    /\ analysis_result = None
    /\ Press(LAMBDA s : go_to(s, 3))

ViewInvestmentRecommendations ==
    /\ Displays("Recommendations")
    /\ analysis_result # None
    /\ Press(LAMBDA s : go_to(s, 5))

BackToRecommendations ==
    /\ Displays("Stock Selection")
    /\ session_state.selected_category = ""
    /\ Press(LAMBDA s : go_to(s, 4))

ContinueToSummary ==
    /\ Displays("Stock Selection")
    /\ session_state.selected_category # ""
    /\ Press(LAMBDA s : go_to(s, 6))

StartOver ==
    /\ Displays("Summary")
    /\ Press(start_over)

LoadSelectedPortfolio ==
    \E i \in 1..Len(session_state.user_portfolios) :
        /\ Displays("Portfolio Management")
        /\ Press(LAMBDA s :
                    go_to(load_portfolio_from_database(s, session_state.user_portfolios[i]), 2))

CreatePortfolio ==
    /\ Displays("Portfolio Management")
    /\ Len(database.portfolios) < MaxPortfolios
    /\ Press(new_portfolio)

CreateGoal ==
    \E risk_level \in GoalRiskLevels :
        /\ Displays("Financial Goals")
        /\ Len(database.goals) < MaxGoals
        /\ Press(LAMBDA s :
                    [s EXCEPT !.database = create_financial_goal(@, s.user_id, risk_level)])

\* the "Create a New Goal" button, displayed to a user without goals
CreateANewGoal ==
    /\ Displays("Financial Goals")
    /\ get_user_goals(database, session_state.user_id) = {}
    /\ Press(LAMBDA s : go_to(s, 3))

\* displayed under a selected goal once the user has entered a monthly amount
UseThisAllocation ==
    \E goal_id \in get_user_goals(database, session_state.user_id),
       years_remaining \in YearsRemaining, monthly_needed \in MonthlyInvestments :
        /\ Displays("Financial Goals")
        /\ Len(database.portfolios) < MaxPortfolios
        /\ PressWithoutRerun(LAMBDA s :
                                use_allocation(s, goal_id, years_remaining, monthly_needed))

\* a session from its first run on: authentication, navigation, the risk
\* profile, the holdings entered by hand, their analysis and recommendations
NextApp ==
    \/ Navigate \/ Logout \/ ChooseAuthentication \/ Login \/ Register
    \/ GetStarted \/ SetRiskProfile
    \/ AddStock \/ ClearPortfolio \/ AnalyzePortfolio
    \/ BackToPortfolioInput \/ GetRecommendations
    \/ BackToAnalysis \/ ViewInvestmentRecommendations
    \/ BackToRecommendations \/ ContinueToSummary
    \/ StartOver

SpecApp == InitApp /\ [][NextApp]_vars

\* the session of a registered user who has chosen a risk profile and gone back
\* to the welcome screen
InitPortfolio ==
    /\ portfolio = <<>>
    /\ risk_profile = HIGH
    /\ time_horizon_years = 5
    /\ analysis_result = None
    /\ recommendations = None
    /\ prediction = None
    /\ scenario_analysis = None
    /\ price_data = None
    /\ mpt_metrics = None
    /\ NoAlerts /\ NoGoal
    /\ session_state = [navigation_index |-> 0, selected_category |-> "",
                        is_logged_in |-> TRUE, user_id |-> 1, user_name |-> "ann",
                        current_portfolio_id |-> 0, user_portfolios |-> <<>>]
    /\ database = [users |-> <<[username |-> "ann", risk_profile |-> ""]>>,
                   portfolios |-> <<>>, goals |-> <<>>]
    /\ page = [screen |-> "Welcome", error |-> ""]

\* the events that build the session portfolio, and the navigation between
\* their screens
NextPortfolio ==
    \/ Navigate
    \/ AddStock \/ AddSIP \/ ClearPortfolio \/ SavePortfolio \/ AnalyzePortfolio
    \/ BackToPortfolioInput
    \/ StartOver
    \/ LoadSelectedPortfolio \/ CreatePortfolio
    \/ CreateGoal \/ CreateANewGoal \/ UseThisAllocation

SpecPortfolio == InitPortfolio /\ [][NextPortfolio]_vars

(***************************************************************************)
(* Reference definitions used to state the properties: they are computed   *)
(* from the holdings directly, not from the results.                       *)
(***************************************************************************)
AllPositive(p) == \A i \in 1..Len(p) : p[i].amount > 0

\* the sum of the amounts held in category c
RECURSIVE CategoryAmount(_, _)
CategoryAmount(p, c) ==
    IF p = <<>> THEN 0
    ELSE (IF p[1].category = c THEN p[1].amount ELSE 0) + CategoryAmount(Tail(p), c)

RECURSIVE RatSum(_)
RatSum(dict) == IF dict = <<>> THEN Zero ELSE RatAdd(dict[1].value, RatSum(Tail(dict)))

Analysed == analysis_result # None /\ analysis_result.status = "ok"

Recommended == recommendations # None /\ recommendations.status = "ok"

TargetOf(c) == Get(get_risk_profile_allocation(risk_profile), c, 0)

TargetCategories == Keys(get_risk_profile_allocation(risk_profile))

\* total investment times the target percentage of c
TargetAmount(c) == Rat(SumAmounts(portfolio) * TargetOf(c), 100)

\* target amount minus the amount held in c
Delta(c) == RatSub(TargetAmount(c), Int2Rat(CategoryAmount(portfolio, c)))

\* 1% of the total investment
Threshold == Rat(SumAmounts(portfolio), 100)

ActionsFor(c) == SelectSeq(recommendations.actions, LAMBDA a : a.category = c)

(***************************************************************************)
(* C1: for every non-empty list of holdings whose amounts are all          *)
(* positive, analyze_portfolio returns normally and its current_allocation *)
(* percentages sum to 100 (the category weights sum to 1), whatever the    *)
(* number of holdings per category.                                        *)
(***************************************************************************)
C1_AllocationSumsTo100 ==
    (analysis_result # None /\ portfolio # <<>> /\ AllPositive(portfolio)) =>
        /\ analysis_result.status = "ok"
        /\ RatSum(analysis_result.current_allocation) = Int2Rat(100)
        /\ Keys(analysis_result.current_allocation) =
               {portfolio[i].category : i \in 1..Len(portfolio)}

\* several categories, one of them holding more than one position
C1_Witness ==
    /\ Analysed
    /\ AllPositive(portfolio)
    /\ Len(analysis_result.current_allocation) >= 2
    /\ \E i, j \in 1..Len(portfolio) : i # j /\ portfolio[i].category = portfolio[j].category

(***************************************************************************)
(* C2: given the analyze_portfolio result of the same holdings,            *)
(* get_allocation_recommendation emits at most one action per target       *)
(* category, and every action's difference is target_amount minus          *)
(* current_amount, where target_amount is the total investment times the   *)
(* target percentage and current_amount is the sum of the amounts held in  *)
(* that category (0 if none).                                              *)
(***************************************************************************)
C2_ActionDeltas ==
    (Recommended /\ portfolio # <<>>) =>
        /\ recommendations.total_investment = SumAmounts(portfolio)
        /\ \A i \in 1..Len(recommendations.actions) :
              LET a == recommendations.actions[i]
              IN  /\ a.category \in TargetCategories
                  /\ Len(ActionsFor(a.category)) = 1
                  /\ a.target_amount = TargetAmount(a.category)
                  /\ a.current_amount = Int2Rat(CategoryAmount(portfolio, a.category))
                  /\ a.difference = RatSub(a.target_amount, a.current_amount)

\* an action on a category held in several positions and one on a category not held
C2_Witness ==
    /\ Recommended
    /\ \E i \in 1..Len(recommendations.actions) :
          LET c == recommendations.actions[i].category
          IN  Cardinality({k \in 1..Len(portfolio) :
                             portfolio[k].category = c /\ portfolio[k].amount > 0}) >= 2
    /\ \E i \in 1..Len(recommendations.actions) :
          recommendations.actions[i].current_amount = Zero

Held(c) == \E i \in 1..Len(portfolio) : portfolio[i].category = c

\* the percentage of the total investment held in category c
CurrentPct(c) == Rat(100 * CategoryAmount(portfolio, c), SumAmounts(portfolio))

\* |current% - target%| of category c, in percentage points
PctGap(c) == RatAbs(RatSub(CurrentPct(c), Int2Rat(TargetOf(c))))

AllocationMessages ==
    {"no_investments", "significantly_higher", "significantly_lower",
     "slightly_higher", "slightly_lower"}

\* the types of the allocation insights about category c, in order
AllocationTypes(c) ==
    LET about == SelectSeq(analysis_result.insights,
                           LAMBDA x : x.subject = c /\ x.message \in AllocationMessages)
    IN  [i \in 1..Len(about) |-> about[i].type]

\* analyze_portfolio ran the allocation loop: the portfolio is not empty
AnalysedHoldings == Analysed /\ portfolio # <<>>

(***************************************************************************)
(* C4 as stated: for every category of the target allocation,              *)
(* analyze_portfolio emits "warning" when the category is absent from the  *)
(* portfolio, otherwise "warning" when |current% - target%| is more than   *)
(* 10 points, otherwise "info" when the difference is from 5 to 10 points, *)
(* exactly 5 and exactly 10 included, and nothing below 5 points.          *)
(***************************************************************************)
C4_InsightTiers_AsStated ==
    AnalysedHoldings =>
        \A c \in TargetCategories :
            AllocationTypes(c) =
                IF ~Held(c) THEN <<"warning">>
                ELSE IF RatLess(Int2Rat(10), PctGap(c)) THEN <<"warning">>
                ELSE IF RatLeq(Int2Rat(5), PctGap(c)) THEN <<"info">>
                ELSE <<>>

(***************************************************************************)
(* C4 as amended: for a non-empty portfolio and every category of the      *)
(* target allocation, analyze_portfolio emits "warning" when the category  *)
(* is absent, otherwise "warning" when |current% - target%| is more than   *)
(* 10 points, otherwise "info" when the difference is more than 5 and at   *)
(* most 10 points, and no allocation insight when it is 5 points or less.  *)
(***************************************************************************)
C4_InsightTiers ==
    AnalysedHoldings =>
        \A c \in TargetCategories :
            AllocationTypes(c) =
                IF ~Held(c) THEN <<"warning">>
                ELSE IF RatLess(Int2Rat(10), PctGap(c)) THEN <<"warning">>
                ELSE IF RatLess(Int2Rat(5), PctGap(c)) THEN <<"info">>
                ELSE <<>>

\* a held category exactly 5 points from its target and with no insight
C4_Witness ==
    /\ AnalysedHoldings
    /\ \E c \in TargetCategories :
          Held(c) /\ PctGap(c) = Int2Rat(5) /\ AllocationTypes(c) = <<>>

\* the ceiling on one holding's share, in percent
CeilingOf(rp) == IF rp = LOW THEN 10 ELSE IF rp = HIGH THEN 20 ELSE 15

\* holding i is more than the ceiling's share of the total
OverCeiling(i) ==
    portfolio[i].amount * 100 > CeilingOf(risk_profile) * SumAmounts(portfolio)

InsightTypes == {analysis_result.insights[i].type : i \in 1..Len(analysis_result.insights)}

(***************************************************************************)
(* C5: the insights list returned by analyze_portfolio is never empty; a   *)
(* "success" (balanced) insight is present exactly when no warning or info *)
(* insight was produced - for a non-empty portfolio, when every target     *)
(* category is held within 5 points of its target and no holding is over   *)
(* the ceiling - and it is then the only insight in the list.              *)
(***************************************************************************)
C5_InsightsNeverEmpty ==
    Analysed =>
        /\ analysis_result.insights # <<>>
        /\ ("success" \in InsightTypes) <=> (InsightTypes \cap {"warning", "info"} = {})
        /\ ("success" \in InsightTypes) => Len(analysis_result.insights) = 1
        /\ portfolio # <<>> =>
              (("success" \in InsightTypes) <=>
                  /\ \A c \in TargetCategories : Held(c) /\ RatLeq(PctGap(c), Int2Rat(5))
                  /\ \A i \in 1..Len(portfolio) : ~OverCeiling(i))

\* a balanced portfolio: the success marker alone
C5_Witness ==
    /\ AnalysedHoldings
    /\ analysis_result.insights = <<Insight("success", "well_balanced", "")>>

\* the names of the holdings over the ceiling, in portfolio order
RECURSIVE NamesOverCeiling(_)
NamesOverCeiling(i) ==
    IF i > Len(portfolio) THEN <<>>
    ELSE (IF OverCeiling(i) THEN <<portfolio[i].name>> ELSE <<>>) \o NamesOverCeiling(i + 1)

\* the holdings named by the concentration warnings, in order
ConcentrationSubjects ==
    LET w == SelectSeq(analysis_result.insights, LAMBDA x : x.message = "exceeds_maximum")
    IN  [i \in 1..Len(w) |-> w[i].subject]

(***************************************************************************)
(* C6: analyze_portfolio emits one concentration warning for each holding  *)
(* whose share amount/total strictly exceeds the ceiling of the risk       *)
(* profile (10% Low, 15% Medium, 20% High) and none for a holding at or    *)
(* below it; the check is per holding, not per name or category.           *)
(***************************************************************************)
C6_ConcentrationPerHolding ==
    (AnalysedHoldings /\ risk_profile \in {LOW, MEDIUM, HIGH}) =>
        /\ ConcentrationSubjects = NamesOverCeiling(1)
        /\ \A i \in 1..Len(analysis_result.insights) :
              analysis_result.insights[i].message = "exceeds_maximum" =>
                  analysis_result.insights[i].type = "warning"

\* one holding flagged, and two holdings of the same name that are not, although
\* together they are over the ceiling
C6_Witness ==
    /\ AnalysedHoldings
    /\ risk_profile \in {LOW, MEDIUM, HIGH}
    /\ ConcentrationSubjects # <<>>
    /\ \E i, j \in 1..Len(portfolio) :
          /\ i # j
          /\ portfolio[i].name = portfolio[j].name
          /\ portfolio[i].name \notin {ConcentrationSubjects[k] : k \in DOMAIN ConcentrationSubjects}
          /\ (portfolio[i].amount + portfolio[j].amount) * 100 >
                 CeilingOf(risk_profile) * SumAmounts(portfolio)

\* v <= w for two values of the same exponent
ValLeq(v, w) ==
    IF v.e = 0 /\ w.e = 0 THEN RatLeq(v.c, w.c)
    ELSE IF Sign(v) <= 0 /\ Sign(w) >= 0 THEN TRUE
    ELSE IF Sign(v) > 0 /\ Sign(w) <= 0 THEN FALSE
    ELSE /\ v.e = w.e
         /\ v.c = w.c
         /\ RatLess(Zero, v.b)
         /\ RatLess(Zero, w.b)
         /\ IF Sign(v) > 0 THEN RatLeq(v.b, w.b) ELSE RatLeq(w.b, v.b)

Predicted == prediction # None /\ prediction.status = "ok"

\* a projection over a horizon of at least one year of a portfolio of positive value
Projected ==
    /\ Predicted
    /\ time_horizon_years >= 1
    /\ SumAmounts(portfolio) > 0

\* the weight-averaged rate of a table, holding by holding: the sum of
\* amount / total * rate over the holdings whose category the table lists
RECURSIVE WeightAveraged(_, _, _)
WeightAveraged(p, total, table) ==
    IF p = <<>> THEN Zero
    ELSE RatAdd(IF p[1].category \in Keys(table)
                THEN RatMul(Rat(p[1].amount, total), Get(table, p[1].category, Zero))
                ELSE Zero,
                WeightAveraged(Tail(p), total, table))

\* R and V of the portfolio under the rows of the risk profile
ExpectedR == WeightAveraged(portfolio, SumAmounts(portfolio),
                            get_expected_return_rates(risk_profile))

ExpectedV == WeightAveraged(portfolio, SumAmounts(portfolio),
                            get_volatility_estimates(risk_profile))

Total == Int2Rat(SumAmounts(portfolio))

(***************************************************************************)
(* C7: for every portfolio with positive total value, every risk profile   *)
(* and every horizon of at least 1 year, at every monthly grid point of    *)
(* predict_portfolio_performance the three bands satisfy                   *)
(* 0 <= pessimistic <= expected <= optimistic.                             *)
(***************************************************************************)
C7_BandsOrdered ==
    (prediction # None /\ SumAmounts(portfolio) > 0 /\ time_horizon_years >= 1) =>
        /\ prediction.status = "ok"
        /\ \A i \in DOMAIN prediction.chart_data.Expected :
              /\ ValLeq(Val(Zero), prediction.chart_data.Pessimistic[i])
              /\ ValLeq(prediction.chart_data.Pessimistic[i], prediction.chart_data.Expected[i])
              /\ ValLeq(prediction.chart_data.Expected[i], prediction.chart_data.Optimistic[i])

\* bands that differ: a positive volatility, and a horizon beyond one year
C7_Witness ==
    /\ Projected
    /\ time_horizon_years >= 2
    /\ RatLess(Zero, prediction.portfolio_volatility)
    /\ prediction.chart_data.Pessimistic[18] # prediction.chart_data.Expected[18]

(***************************************************************************)
(* C8: at the 1-year mark predict_portfolio_performance yields             *)
(* expected = total*(1+R), pessimistic = total*(1+R-V) and                 *)
(* optimistic = total*(1+R+V), R and V the weight-averaged expected return *)
(* and volatility of the risk profile; a single Large Cap holding of 10000 *)
(* under "Medium Risk (Balanced)" gives 10800, 9600 and 12000.             *)
(***************************************************************************)
C8_YearOne ==
    Projected =>
        LET y1 == prediction.predictions[1]
        IN  /\ y1.year = 1
            /\ y1.expected = Val(RatMul(Total, RatAdd(One, ExpectedR)))
            /\ y1.pessimistic = Val(RatMul(Total, RatSub(RatAdd(One, ExpectedR), ExpectedV)))
            /\ y1.optimistic = Val(RatMul(Total, RatAdd(RatAdd(One, ExpectedR), ExpectedV)))
            /\ (portfolio = <<Item("Index", "Large Cap", 10000)>> /\ risk_profile = MEDIUM) =>
                  /\ y1.expected = Val(Int2Rat(10800))
                  /\ y1.pessimistic = Val(Int2Rat(9600))
                  /\ y1.optimistic = Val(Int2Rat(12000))

\* the example of the specification
C8_Witness ==
    /\ Projected
    /\ portfolio = <<Item("Index", "Large Cap", 10000)>>
    /\ risk_profile = MEDIUM
    /\ prediction.predictions[1].expected = Val(Int2Rat(10800))

\* the years of {1, 3, 5} up to h, in increasing order
YearMarks(h) == SelectSeq(<<1, 3, 5>>, LAMBDA y : y <= h)

(***************************************************************************)
(* C9: for a horizon of h >= 1 years, predict_portfolio_performance        *)
(* produces exactly 12*h + 1 monthly points per band, the first equal to   *)
(* the total value, and its predictions list holds exactly one entry for   *)
(* each year y in {1, 3, 5} with y <= h, in increasing order, whose three  *)
(* values are the band values at monthly index 12*y.                       *)
(***************************************************************************)
C9_GridAndSnapshots ==
    (Predicted /\ time_horizon_years >= 1) =>
        LET h == time_horizon_years
            chart == prediction.chart_data
        IN  /\ Len(chart.Pessimistic) = 12 * h + 1
            /\ Len(chart.Expected) = 12 * h + 1
            /\ Len(chart.Optimistic) = 12 * h + 1
            /\ chart.Pessimistic[1] = Val(Total)
            /\ chart.Expected[1] = Val(Total)
            /\ chart.Optimistic[1] = Val(Total)
            /\ Len(prediction.predictions) = Len(YearMarks(h))
            /\ \A k \in 1..Len(prediction.predictions) :
                  LET e == prediction.predictions[k]
                  IN  /\ e.year = YearMarks(h)[k]
                      /\ e.pessimistic = chart.Pessimistic[12 * e.year + 1]
                      /\ e.expected = chart.Expected[12 * e.year + 1]
                      /\ e.optimistic = chart.Optimistic[12 * e.year + 1]

\* a horizon that is itself a year mark, and one that is not
C9_Witness ==
    /\ Projected
    /\ time_horizon_years = 3
    /\ Len(prediction.predictions) = 2
    /\ prediction.predictions[2].expected # prediction.predictions[1].expected

\* the holdings whose category the return table of the risk profile lists
Tabled(i) == portfolio[i].category \in Keys(get_expected_return_rates(risk_profile))

(***************************************************************************)
(* C10: in predict_portfolio_performance a holding whose category is       *)
(* missing from the return and volatility tables (for example "Other")     *)
(* still counts in the total value and in the weight denominator but adds  *)
(* nothing to the weighted return or volatility; a portfolio made only of  *)
(* such holdings has weighted return 0 and volatility 0 and its three      *)
(* bands equal the total value at every grid point.                        *)
(***************************************************************************)
C10_UntabledCategories ==
    Projected =>
        /\ prediction.total_value = SumAmounts(portfolio)
        /\ prediction.weighted_return = ExpectedR
        /\ prediction.portfolio_volatility = ExpectedV
        /\ (\A i \in 1..Len(portfolio) : ~Tabled(i)) =>
              /\ prediction.weighted_return = Zero
              /\ prediction.portfolio_volatility = Zero
              /\ \A k \in DOMAIN prediction.chart_data.Expected :
                    /\ prediction.chart_data.Pessimistic[k] = Val(Total)
                    /\ prediction.chart_data.Expected[k] = Val(Total)
                    /\ prediction.chart_data.Optimistic[k] = Val(Total)

\* a portfolio of "Other" holdings only
C10_Witness ==
    /\ Projected
    /\ time_horizon_years >= 2
    /\ portfolio # <<>>
    /\ \A i \in 1..Len(portfolio) : portfolio[i].category = "Other" /\ portfolio[i].amount > 0

(***************************************************************************)
(* C11.  predict_portfolio_performance reports InvalidInput, as a returned *)
(* error value, whenever the horizon is zero or negative or the portfolio  *)
(* is empty: the call neither raises nor returns a normal projection.      *)
(* The code has no such check; the statement is kept as the property the   *)
(* code is measured against.                                               *)
(***************************************************************************)
InvalidHorizonOrEmpty == time_horizon_years <= 0 \/ portfolio = <<>>

\* C11: a prediction for a horizon <= 0 or an empty portfolio is the
\* InvalidInput error value (not a projection, not an exception)
C11_InvalidInputReported ==
    (prediction # None /\ InvalidHorizonOrEmpty) => prediction.status = "InvalidInput"

(***************************************************************************)
(* Reference definitions for the scenario engine.                          *)
(***************************************************************************)
ScenarioRun == scenario_analysis # None

ScenarioOk == ScenarioRun /\ scenario_analysis.status = "ok"

\* the orders in which n scenarios can be taken
Orders(n) == {f \in [1..n -> 1..n] : \A i, j \in 1..n : f[i] = f[j] => i = j}

\* final_value * probability summed over the scenarios order[1], .., order[k]
RECURSIVE SumInOrder(_, _, _)
SumInOrder(results, order, k) ==
    IF k = 0 THEN QInt(0)
    ELSE QAdd(SumInOrder(results, order, k - 1),
              QMul(results[order[k]].final_value, results[order[k]].probability))

ScenarioCategories == {"Large Cap", "Mid Cap", "Small Cap", "Gold", "ETFs/Crypto"}

Unmapped(i) == portfolio[i].category \notin ScenarioCategories

Relabelled(i) == [portfolio EXCEPT ![i].category = "Large Cap"]

\* two analyses with the same annual returns, final values and expected value
SameScenarioFigures(a, b) ==
    /\ a.status = "ok" /\ b.status = "ok"
    /\ \A s \in 1..4 :
          /\ QEq(a.scenario_results[s].annual_return, b.scenario_results[s].annual_return)
          /\ QEq(a.scenario_results[s].final_value, b.scenario_results[s].final_value)
    /\ QEq(a.expected_value, b.expected_value)

\* the return a holding earns in scenario s, an unmapped category earning the
\* large-cap return
HoldingReturn(s, i) ==
    LET c == portfolio[i].category
    IN  IF c = "Mid Cap" THEN scenario_config[s].mid_cap_return
        ELSE IF c = "Small Cap" THEN scenario_config[s].small_cap_return
        ELSE IF c = "Gold" THEN scenario_config[s].gold_return
        ELSE IF c = "ETFs/Crypto" THEN scenario_config[s].crypto_return
        ELSE scenario_config[s].large_cap_return

RECURSIVE HoldingsReturn(_, _)
HoldingsReturn(s, k) ==
    IF k = 0 THEN QInt(0)
    ELSE QAdd(HoldingsReturn(s, k - 1),
              QMul(QRat(portfolio[k].amount, SumAmounts(portfolio)), HoldingReturn(s, k)))

(***************************************************************************)
(* C13.  In every scenario a holding whose category is none of Large Cap,  *)
(* Mid Cap, Small Cap, Gold, ETFs/Crypto earns that scenario's large-cap   *)
(* return: each annual_return is the weight-averaged return with that      *)
(* fallback, and relabelling such a holding "Large Cap" changes no         *)
(* annual_return, no final_value and not the expected_value.               *)
(***************************************************************************)
C13_LargeCapFallback ==
    ScenarioOk =>
        /\ \A s \in 1..4 :
              QEq(scenario_analysis.scenario_results[s].annual_return,
                  HoldingsReturn(s, Len(portfolio)))
        /\ \A i \in 1..Len(portfolio) :
              Unmapped(i) =>
                  SameScenarioFigures(
                      scenario_analysis,
                      generate_economic_scenario_analysis(Relabelled(i), time_horizon_years))

\* an "Other" holding next to holdings of other categories
C13_Witness ==
    /\ ScenarioOk
    /\ time_horizon_years >= 1
    /\ \E i, j \in 1..Len(portfolio) :
          /\ Unmapped(i) /\ portfolio[i].amount > 0
          /\ ~Unmapped(j) /\ portfolio[j].category # "Large Cap" /\ portfolio[j].amount > 0

\* value compounded at rate for years years (backwards for years < 0)
RECURSIVE Compound(_, _, _)
Compound(value, rate, years) ==
    IF years = 0 THEN value
    ELSE IF years > 0 THEN Compound(QMul(value, QAdd(QInt(1), rate)), rate, years - 1)
    ELSE Compound(QDiv(value, QAdd(QInt(1), rate)), rate, years + 1)

ScenarioNamed(name) ==
    CHOOSE s \in 1..4 : scenario_analysis.scenario_results[s].name = name

(***************************************************************************)
(* C14.  For each scenario final_value is the total value compounded at    *)
(* the scenario's annual_return over the horizon; the chart has exactly    *)
(* horizon + 1 rows, for the years 0..horizon, whose value at year 0 is    *)
(* the total value and at year horizon the scenario's final_value; a       *)
(* single Large Cap holding of 10000 at horizon 5 has the Recession final  *)
(* value 10000 * 0.95^5 = 7737.809375.                                     *)
(***************************************************************************)
C14_FinalValueAndChart ==
    ScenarioOk =>
        LET r == scenario_analysis
            total == SumAmounts(portfolio)
            h == time_horizon_years
        IN  /\ \A s \in 1..4 :
                  QEq(r.scenario_results[s].final_value,
                      Compound(QInt(total), r.scenario_results[s].annual_return, h))
            /\ Len(r.chart_data) = (IF h >= 0 THEN h + 1 ELSE 0)
            /\ \A k \in DOMAIN r.chart_data :
                  /\ r.chart_data[k].Year = k - 1
                  /\ DOMAIN r.chart_data[k].values = 1..4
            /\ h >= 1 =>
                  \A s \in 1..4 :
                      /\ QEq(r.chart_data[1].values[s], QInt(total))
                      /\ QEq(r.chart_data[h + 1].values[s], r.scenario_results[s].final_value)
            /\ (portfolio = <<Item("Index", "Large Cap", 10000)>> /\ h = 5) =>
                  LET recession == r.scenario_results[ScenarioNamed("Recession")].final_value
                  IN  /\ QEq(recession, QRat(2476099, 320))
                      /\ QLess(QRat(7737805, 1000), recession)
                      /\ QLess(recession, QRat(7737815, 1000))

\* the 10000 Large Cap holding at horizon 5
C14_Witness ==
    /\ ScenarioOk
    /\ portfolio = <<Item("Index", "Large Cap", 10000)>>
    /\ time_horizon_years = 5

VulnerabilityMessage ==
    "Your portfolio may be vulnerable to a {worst_name} scenario. Consider adding more defensive assets."

RecessionMessage ==
    "Given the recession risk, consider increasing allocation to defensive sectors (utilities, consumer staples) and gold."

InflationMessage ==
    "With inflation risk present, consider adding TIPS, commodities, or real estate to protect purchasing power."

ShortfallMessage ==
    "Your expected returns may be lower than traditional benchmarks. Consider reviewing your asset allocation."

\* the positions of the recommendations carrying a message
Recommending(message) ==
    {k \in DOMAIN scenario_analysis.recommendations :
        scenario_analysis.recommendations[k].message = message}

\* the scenarios no other scenario ends below
LowestScenarios ==
    {s \in 1..4 : \A t \in 1..4 :
        ~QLess(scenario_analysis.scenario_results[t].final_value,
               scenario_analysis.scenario_results[s].final_value)}

\* the annualized expected return is below 5%: the expected value is below the
\* total value compounded at 5% over the horizon (above it, for a horizon < 0)
BelowFivePercent ==
    LET grown == Compound(QInt(SumAmounts(portfolio)), QRat(5, 100), time_horizon_years)
    IN  IF time_horizon_years > 0 THEN QLess(scenario_analysis.expected_value, grown)
        ELSE QLess(grown, scenario_analysis.expected_value)

ProbabilityAbove10(name) ==
    QLess(QRat(10, 100), scenario_analysis.scenario_results[ScenarioNamed(name)].probability)

(***************************************************************************)
(* C15.  The recommendations are a function of the results: the            *)
(* vulnerability recommendation names a scenario of lowest final value     *)
(* and appears exactly when that final value is below 80% of the total     *)
(* value; the recession and the inflation recommendation appear exactly    *)
(* when that scenario's probability exceeds 10%, so always; the            *)
(* return-shortfall recommendation appears exactly when the annualized     *)
(* expected return is below 5%; there is no other recommendation.          *)
(***************************************************************************)
C15_Recommendations ==
    ScenarioOk =>
        LET r == scenario_analysis
            total == QInt(SumAmounts(portfolio))
        IN  /\ Cardinality(Recommending(VulnerabilityMessage)) <= 1
            /\ (Recommending(VulnerabilityMessage) # {}) <=>
                  (\E s \in 1..4 : QLess(r.scenario_results[s].final_value,
                                         QMul(QRat(80, 100), total)))
            /\ \A k \in Recommending(VulnerabilityMessage) :
                  \E s \in LowestScenarios :
                      r.recommendations[k].subject = r.scenario_results[s].name
            /\ Cardinality(Recommending(RecessionMessage)) = 1
            /\ ProbabilityAbove10("Recession")
            /\ Cardinality(Recommending(InflationMessage)) = 1
            /\ ProbabilityAbove10("High Inflation")
            /\ Cardinality(Recommending(ShortfallMessage)) <= 1
            /\ (Recommending(ShortfallMessage) # {}) <=> BelowFivePercent
            /\ \A k \in DOMAIN r.recommendations :
                  r.recommendations[k].message \in
                      {VulnerabilityMessage, RecessionMessage, InflationMessage,
                       ShortfallMessage}

\* a vulnerable portfolio over several years
C15_Witness ==
    /\ ScenarioOk
    /\ time_horizon_years >= 2
    /\ Recommending(VulnerabilityMessage) # {}

\* a final value of exactly 80% of the total value: no vulnerability recommendation
C15_AtEightyPercent ==
    /\ ScenarioOk
    /\ \E s \in LowestScenarios :
          QEq(scenario_analysis.scenario_results[s].final_value,
              QMul(QRat(80, 100), QInt(SumAmounts(portfolio))))
    /\ Recommending(VulnerabilityMessage) = {}

\* a return shortfall
C15_Shortfall == ScenarioOk /\ time_horizon_years >= 1 /\ Recommending(ShortfallMessage) # {}

(***************************************************************************)
(* C16.  For a risk profile that is none of the three recognised ones      *)
(* (the empty string included) every lookup falls back to the Medium       *)
(* profile: the analysis carries the Medium target allocation and the      *)
(* prediction the Medium expected returns and the Medium volatilities, so  *)
(* that one analysis never mixes the rows of two profiles.                 *)
(***************************************************************************)
Unrecognised == risk_profile \notin {LOW, MEDIUM, HIGH}

C16_MediumFallback ==
    Unrecognised =>
        /\ (analysis_result # None /\ analysis_result.status = "ok") =>
              analysis_result.target_allocation = get_risk_profile_allocation(MEDIUM)
        /\ (prediction # None /\ prediction.status = "ok") =>
              /\ prediction.expected_returns = get_expected_return_rates(MEDIUM)
              /\ prediction.risk_assessment = get_volatility_estimates(MEDIUM)

(***************************************************************************)
(* C17.  analyze_portfolio rejects, with an InvalidHolding error value,    *)
(* any list of holdings containing a holding of zero or negative amount:   *)
(* it computes no weights from it and raises nothing (no division by zero  *)
(* when all amounts are 0).                                                *)
(***************************************************************************)
NonPositiveHolding == \E i \in 1..Len(portfolio) : portfolio[i].amount <= 0

C17_InvalidHoldingRejected ==
    (analysis_result # None /\ NonPositiveHolding) =>
        analysis_result.status = "InvalidHolding"

(***************************************************************************)
(* C18.  For an empty list of holdings each of analyze_portfolio,          *)
(* get_allocation_recommendation, predict_portfolio_performance and        *)
(* generate_economic_scenario_analysis returns without raising and without *)
(* dividing by the zero total value, and its result reports the            *)
(* insufficient-data condition instead of computed figures.                *)
(***************************************************************************)
C18_EmptyPortfolio ==
    portfolio = <<>> =>
        /\ analysis_result # None =>
              /\ analysis_result.status = "ok"
              /\ analysis_result.current_allocation = <<>>
              /\ analysis_result.insights = <<Insight("info", "add_investments", "")>>
        /\ recommendations # None =>
              /\ recommendations.status = "ok"
              /\ recommendations.actions = <<>>
        \* neither an exception nor a projection (for a horizon of a year or more)
        /\ (prediction # None /\ time_horizon_years >= 1) =>
              prediction.status \notin {"raised", "ok"}
        \* neither the figures of the scenarios nor the value returned after a
        \* division by zero
        /\ (scenario_analysis # None /\ time_horizon_years >= 1) =>
              /\ scenario_analysis.status # "ok"
              /\ ~(scenario_analysis.status = "except"
                   /\ scenario_analysis.error = "ZeroDivisionError")

(***************************************************************************)
(* C19.  Whenever the download answered and the weight-averaged beta of    *)
(* the portfolio is exactly 0, calculate_modern_portfolio_theory_metrics   *)
(* returns normally with treynor_ratio None (no division by the zero       *)
(* beta); whenever that beta is not 0, treynor_ratio is the quotient       *)
(* (portfolio_return - risk_free_rate) / portfolio_beta.                   *)
(***************************************************************************)
MetricsComputed ==
    /\ mpt_metrics # None
    /\ price_data # None
    /\ price_data.answer.status = "ok"
    \* every ticker has prices
    /\ price_data.answer.no_data = {}

\* the weight of ticker t in the portfolio: the amount of its last holding over
\* the amounts of all the holdings that have a ticker key (0 if it is not held)
WeightOf(t) ==
    LET held == {i \in DOMAIN portfolio :
                    HasTickerKey(portfolio[i]) /\ portfolio[i].ticker = t}
    IN  IF held = {} THEN QInt(0)
        ELSE QRat(portfolio[CHOOSE i \in held : \A j \in held : j <= i].amount,
                  SumTickerAmounts(portfolio))

\* covariance with the market over the variance of the market
BetaOf(t) ==
    QDiv(price_data.answer.stock_returns[t].covariance, price_data.answer.market_variance)

WeightedBeta ==
    QAdd(QMul(BetaOf("AAPL"), WeightOf("AAPL")), QMul(BetaOf("MSFT"), WeightOf("MSFT")))

C19_TreynorRatio ==
    MetricsComputed =>
        /\ mpt_metrics.status = "ok"
        /\ QEq(mpt_metrics.beta, WeightedBeta)
        /\ IF QIsZero(WeightedBeta)
           THEN mpt_metrics.treynor_ratio = None
           ELSE /\ mpt_metrics.treynor_ratio # None
                /\ DOMAIN mpt_metrics.treynor_ratio = DOMAIN QInt(0)
                /\ QEq(QMul(mpt_metrics.treynor_ratio, WeightedBeta),
                       QSub(mpt_metrics.portfolio_return, risk_free_rate))

\* two betas that are not 0 cancel: the portfolio's beta is exactly 0
C19_Witness ==
    /\ MetricsComputed
    /\ ~QIsZero(BetaOf("AAPL"))
    /\ ~QIsZero(WeightOf("AAPL"))
    /\ QIsZero(WeightedBeta)
    /\ mpt_metrics.treynor_ratio = None

\* a beta that is not 0 under a return above the risk-free rate
C19_NonZeroBeta ==
    /\ MetricsComputed
    /\ ~QIsZero(WeightedBeta)
    /\ QLess(risk_free_rate, mpt_metrics.portfolio_return)
    /\ mpt_metrics.treynor_ratio # None

(***************************************************************************)
(* C20.  For a portfolio none of whose holdings carries a non-empty        *)
(* ticker, calculate_modern_portfolio_theory_metrics returns normally a    *)
(* result with its error set and with sharpe_ratio, beta, alpha,           *)
(* r_squared, treynor_ratio, correlation_matrix and efficient_frontier     *)
(* all None, and no historical prices are requested.                       *)
(***************************************************************************)
NoNonEmptyTicker ==
    \A i \in DOMAIN portfolio :
        ~(HasTickerKey(portfolio[i]) /\ portfolio[i].ticker # "")

C20_NoTickersShortCircuit ==
    (mpt_metrics # None /\ NoNonEmptyTicker) =>
        /\ mpt_metrics.status = "ok"
        /\ "error" \in DOMAIN mpt_metrics
        /\ mpt_metrics.error = "No ticker symbols found in portfolio for MPT analysis."
        /\ \A field \in {"sharpe_ratio", "beta", "alpha", "r_squared", "treynor_ratio",
                         "correlation_matrix", "efficient_frontier"} :
              mpt_metrics[field] = None
        /\ price_data = None

\* a holding with an empty ticker and a positive amount: the total is not 0 and
\* the list of tickers is empty
C20_Witness ==
    /\ mpt_metrics # None
    /\ NoNonEmptyTicker
    /\ \E i \in DOMAIN portfolio :
          HasTickerKey(portfolio[i]) /\ portfolio[i].amount > 0
    /\ "error" \in DOMAIN mpt_metrics

\* no holding has a ticker key at all: the total of the ticker amounts is 0
C20_NoTickerKey ==
    /\ mpt_metrics # None
    /\ portfolio # <<>>
    /\ \A i \in DOMAIN portfolio : ~HasTickerKey(portfolio[i])
    /\ "error" \in DOMAIN mpt_metrics

(***************************************************************************)
(* C21.  When the download has no prices for one ticker of the portfolio   *)
(* and has prices for another, calculate_modern_portfolio_theory_metrics   *)
(* completes without an error: the beta of the result is the               *)
(* weight-averaged beta of the tickers that have prices, and each of them  *)
(* has its own statistics in risk_metrics.                                 *)
(***************************************************************************)
\* a holding carries ticker t
HoldsTicker(t) ==
    \E i \in DOMAIN portfolio : HasTickerKey(portfolio[i]) /\ portfolio[i].ticker = t

\* the held tickers without prices, and those with prices
Lacking == {t \in TickerSymbols : HoldsTicker(t) /\ t \in price_data.answer.no_data}

Remaining == {t \in TickerSymbols : HoldsTicker(t) /\ t \notin price_data.answer.no_data}

DataGap ==
    /\ mpt_metrics # None
    /\ price_data # None
    /\ price_data.answer.status = "ok"
    /\ Lacking # {}
    /\ Remaining # {}

BetaTerm(t) == IF t \in Remaining THEN QMul(BetaOf(t), WeightOf(t)) ELSE QInt(0)

RemainingBeta == QAdd(BetaTerm("AAPL"), BetaTerm("MSFT"))

C21_MissingTickerLeftOut ==
    DataGap =>
        /\ "error" \notin DOMAIN mpt_metrics
        /\ IsNumber(mpt_metrics.beta)
        /\ QEq(mpt_metrics.beta, RemainingBeta)
        /\ \A t \in Remaining :
              /\ t \in DOMAIN mpt_metrics.risk_metrics
              /\ IsNumber(mpt_metrics.risk_metrics[t].beta)
              /\ QEq(mpt_metrics.risk_metrics[t].beta, BetaOf(t))

\* the column of the ticker is full of nan: no statistic is a number
C21_NanColumn ==
    /\ DataGap
    /\ price_data.answer.missing = "nan column"
    /\ \A t \in Remaining : ~IsNumber(mpt_metrics.risk_metrics[t].beta)
    /\ ~IsNumber(mpt_metrics.beta)

\* the ticker has no column: the statistics are stored and the call ends in the
\* except clause
C21_NoColumn ==
    /\ DataGap
    /\ price_data.answer.missing = "no column"
    /\ QEq(mpt_metrics.beta, RemainingBeta)
    /\ "error" \in DOMAIN mpt_metrics
    /\ mpt_metrics.efficient_frontier = None

(***************************************************************************)
(* C22.  When the download answered with prices for every ticker, the      *)
(* result has an efficient_frontier of at least 20 sampled points followed *)
(* by the portfolio's own point, the only one marked is_current; each      *)
(* sampled point comes from one non-negative weight per distinct ticker    *)
(* of the portfolio, and the weights sum to 1 - also when two holdings     *)
(* carry the same ticker.                                                  *)
(***************************************************************************)
RECURSIVE QSum(_, _)
QSum(w, n) == IF n = 0 THEN QInt(0) ELSE QAdd(QSum(w, n - 1), w[n])

HeldTickers == {t \in TickerSymbols : HoldsTicker(t)}

\* the points are there, as the claim describes them
FrontierOfDistinctTickers ==
    /\ "error" \notin DOMAIN mpt_metrics
    /\ LET frontier == mpt_metrics.efficient_frontier
           n == Len(frontier)
       IN  /\ n >= 20 + 1
           /\ frontier[n].is_current
           /\ \A i \in 1..(n - 1) :
                 /\ ~frontier[i].is_current
                 /\ Len(frontier[i].weights) = Cardinality(HeldTickers)
                 /\ \A k \in DOMAIN frontier[i].weights : ~frontier[i].weights[k].neg
                 /\ QEq(QSum(frontier[i].weights, Len(frontier[i].weights)), QInt(1))

C22_EfficientFrontier == MetricsComputed => FrontierOfDistinctTickers

\* a ticker held twice
SharedTicker ==
    \E i, j \in DOMAIN portfolio :
        /\ i # j
        /\ HasTickerKey(portfolio[i]) /\ HasTickerKey(portfolio[j])
        /\ portfolio[i].ticker # ""
        /\ portfolio[i].ticker = portfolio[j].ticker

\* without a shared ticker the frontier is as described, from unequal draws
C22_DistinctTickers ==
    /\ MetricsComputed
    /\ ~SharedTicker
    /\ FrontierOfDistinctTickers
    /\ \E k \in DOMAIN mpt_metrics.efficient_frontier[1].weights :
          ~QEq(mpt_metrics.efficient_frontier[1].weights[k],
               mpt_metrics.efficient_frontier[1].weights[1])

\* with a shared ticker there is no frontier and the error is set
C22_SharedTicker ==
    /\ MetricsComputed
    /\ SharedTicker
    /\ "error" \in DOMAIN mpt_metrics
    /\ mpt_metrics.efficient_frontier = None

\* C22 for portfolios without a shared ticker
C22_WithoutSharedTicker == (MetricsComputed /\ ~SharedTicker) => FrontierOfDistinctTickers

RECURSIVE SumPercentages(_)
SumPercentages(target_allocation) ==
    IF target_allocation = <<>> THEN 0
    ELSE target_allocation[1].value + SumPercentages(Tail(target_allocation))

RECURSIVE SumTargetAmounts(_, _)
SumTargetAmounts(target_allocation, total_investment) ==
    IF target_allocation = <<>> THEN Zero
    ELSE RatAdd(target_amount(target_allocation[1].value, total_investment),
                SumTargetAmounts(Tail(target_allocation), total_investment))

RECURSIVE SumDifferences(_, _, _)
SumDifferences(target_allocation, current_allocation, total_investment) ==
    IF target_allocation = <<>> THEN Zero
    ELSE RatAdd(difference(target_allocation[1].category, target_allocation[1].value,
                           current_allocation, total_investment),
                SumDifferences(Tail(target_allocation), current_allocation,
                               total_investment))

\* the amount held in categories that are not in the target table
RECURSIVE AmountOutside(_, _)
AmountOutside(p, table) ==
    IF p = <<>> THEN 0
    ELSE (IF p[1].category \in table THEN 0 ELSE p[1].amount) + AmountOutside(Tail(p), table)

RecommendedForHoldings ==
    /\ recommendations # None
    /\ recommendations.status = "ok"
    /\ portfolio # <<>>

C24_TargetsSumToTotal ==
    /\ \A rp \in {LOW, MEDIUM, HIGH} : SumPercentages(get_risk_profile_allocation(rp)) = 100
    /\ RecommendedForHoldings =>
          LET target_allocation == analysis_result.target_allocation
              current_allocation == analysis_result.current_allocation
              total_investment == recommendations.total_investment
          IN  /\ total_investment = SumAmounts(portfolio)
              /\ SumTargetAmounts(target_allocation, total_investment)
                     = Int2Rat(total_investment)
              /\ SumDifferences(target_allocation, current_allocation, total_investment)
                     = Int2Rat(AmountOutside(portfolio, Keys(target_allocation)))

\* recommendations for a portfolio that holds a positive amount outside the table
C24_Witness ==
    /\ RecommendedForHoldings
    /\ AmountOutside(portfolio, Keys(analysis_result.target_allocation)) > 0
    /\ AmountOutside(portfolio, Keys(analysis_result.target_allocation)) < SumAmounts(portfolio)

\* recommendations for a portfolio held in categories of the table only
C24_AllInTable ==
    /\ RecommendedForHoldings
    /\ Len(portfolio) >= 2
    /\ AmountOutside(portfolio, Keys(analysis_result.target_allocation)) = 0
    /\ recommendations.actions # <<>>

(***************************************************************************)
(* C25: price alerts.                                                      *)
(***************************************************************************)
\* a step that is a call of check_price_alerts
CheckedPrices == current_prices' # current_prices \/ triggered_alerts' # triggered_alerts

\* the ids in the list the call returns
ReturnedIds == {triggered_alerts'[k].id : k \in 1..Len(triggered_alerts')}

\* the alerts that are due under the prices of the call, from the table before it
DueIds ==
    {i \in 1..Len(alerts) :
        /\ alerts[i].is_active
        /\ ~alerts[i].is_triggered
        /\ alerts[i].ticker \in DOMAIN current_prices'
        /\ \/ /\ alerts[i].alert_type = "above"
              /\ current_prices'[alerts[i].ticker] >= alerts[i].target_price
           \/ /\ alerts[i].alert_type = "below"
              /\ current_prices'[alerts[i].ticker] <= alerts[i].target_price}

\* C25: check_price_alerts returns exactly the active, untriggered alerts whose
\* ticker has a price and whose condition holds ('above': price >= target,
\* 'below': price <= target), each once, and marks them triggered; no alert is
\* returned by two checks, and an alert deactivated by delete_price_alert stays
\* inactive, so that no later check returns it
C25_CheckPriceAlerts ==
    [][/\ CheckedPrices =>
            /\ ReturnedIds = DueIds
            /\ Len(triggered_alerts') = Cardinality(DueIds)
            /\ \A i \in ReturnedIds : alerts'[i].is_triggered
            /\ ReturnedIds \cap returned_alerts = {}
            /\ \A i \in ReturnedIds : alerts[i].is_active
       /\ \A i \in 1..Len(alerts) : ~alerts[i].is_active => ~alerts'[i].is_active]_vars

\* a check has returned an alert at its target price, a later check runs at a
\* price that still meets the condition, and another alert was deleted
C25_Witness ==
    /\ Len(alerts) = 2
    /\ alerts[1].alert_type = "above"
    /\ alerts[1].is_triggered /\ 1 \in returned_alerts
    /\ ~alerts[2].is_active /\ ~alerts[2].is_triggered
    /\ alerts[2].ticker = alerts[1].ticker
    /\ alerts[1].ticker \in DOMAIN current_prices
    /\ current_prices[alerts[1].ticker] > alerts[1].target_price
    /\ triggered_alerts = <<>>

(***************************************************************************)
(* C26: the monthly investment a goal needs.                               *)
(***************************************************************************)
\* C26: for a target, a current amount, a number of years and a rate that are
\* all >= 0, calculate_monthly_investment_needed returns an amount >= 0 and does
\* not raise
C26_MonthlyInvestmentNonNegative ==
    monthly_investment # None =>
        /\ monthly_investment.status = "ok"
        /\ ~monthly_investment.value.neg

\* the same for a goal that is at least a year away at a rate above 0
C26_YearsAndRatePositive ==
    (monthly_investment # None /\ goal.years > 0 /\ ~QIsZero(goal.expected_return_rate)) =>
        /\ monthly_investment.status = "ok"
        /\ ~monthly_investment.value.neg

\* a goal due now
C26_DueNow ==
    /\ monthly_investment # None
    /\ goal.years = 0
    /\ monthly_investment.status = "raised"

\* a goal already exceeded, at no return
C26_Exceeded ==
    /\ monthly_investment # None
    /\ goal.years > 0
    /\ QIsZero(goal.expected_return_rate)
    /\ goal.current_amount > goal.target_amount
    /\ monthly_investment.status = "ok"
    /\ monthly_investment.value.neg

(***************************************************************************)
(* C27: the navigation index.                                              *)
(***************************************************************************)
\* the number of entries of the navigation list for the login and risk-profile
\* state: 9 or 3 for a logged-in user, 7 or 2 otherwise
NavigationEntries ==
    IF session_state.is_logged_in
    THEN IF risk_profile # "" THEN 9 ELSE 3
    ELSE IF risk_profile # "" THEN 7 ELSE 2

\* C27: after any sequence of UI events the stored NAVIGATION_INDEX is a position
\* of the navigation list that the next run of main() displays, and for a
\* logged-in user the entry at that position is the screen displayed
C27_NavigationIndexValid ==
    /\ session_state.navigation_index \in 0..(NavigationEntries - 1)
    /\ (session_state.is_logged_in /\ page.error = "") =>
           navigation_options(Session)[session_state.navigation_index + 1] = page.screen

\* the same while a risk profile is set
C27_WithRiskProfile ==
    risk_profile # "" =>
        /\ session_state.navigation_index \in 0..(NavigationEntries - 1)
        /\ (session_state.is_logged_in /\ page.error = "") =>
               navigation_options(Session)[session_state.navigation_index + 1] = page.screen

\* a user without a risk profile has opened the portfolio management screen
C27_ManagementWithoutRiskProfile ==
    /\ session_state.is_logged_in
    /\ risk_profile = ""
    /\ page = [screen |-> "Portfolio Management", error |-> ""]
    /\ session_state.navigation_index = 7

\* the run after it
C27_RadioRaises == page.error = "StreamlitAPIException"

(***************************************************************************)
(* C28: the analysis behind the recommendations.                           *)
(***************************************************************************)
\* the recommendations screen has called get_allocation_recommendation
RecommendationsComputed ==
    /\ page = [screen |-> "Recommendations", error |-> ""]
    /\ analysis_result # None

\* C28: when the recommendations screen calls get_allocation_recommendation, the
\* ANALYSIS_RESULT it passes is the analysis of the holdings and the risk profile
\* that are in the session at that moment
C28_AnalysisIsCurrent ==
    RecommendationsComputed => analysis_result = analyze_portfolio(portfolio, risk_profile)

\* recommendations for holdings in one category from the percentages of holdings
\* in another
C28_OtherHoldings ==
    /\ RecommendationsComputed
    /\ portfolio # <<>>
    /\ recommendations.status = "ok"
    /\ \A i \in 1..Len(portfolio) :
           portfolio[i].category \notin Keys(analysis_result.current_allocation)

\* recommendations from the targets of another risk profile
C28_OtherRiskProfile ==
    /\ RecommendationsComputed
    /\ analysis_result.target_allocation # get_risk_profile_allocation(risk_profile)

(***************************************************************************)
(* C29: the amounts of the session portfolio.                              *)
(***************************************************************************)
\* C29: every holding of the session portfolio has an amount > 0, every SIP
\* holding has the amount monthly_amount * months_invested, and the analysis
\* screen never analyses a non-empty portfolio whose total is 0
C29_AmountsPositive ==
    /\ \A i \in 1..Len(portfolio) : portfolio[i].amount > 0
    /\ \A i \in 1..Len(portfolio) :
           portfolio[i].type = "SIP" =>
               /\ "monthly_amount" \in DOMAIN portfolio[i]
               /\ portfolio[i].amount =
                      portfolio[i].monthly_amount * portfolio[i].months_invested
    /\ (page.screen = "Portfolio Analysis" /\ portfolio # <<>>) => SumAmounts(portfolio) > 0

\* the same for the holdings entered on the portfolio input screen
C29_EnteredHoldings ==
    (session_state.current_portfolio_id = 0) =>
        /\ \A i \in 1..Len(portfolio) : portfolio[i].amount > 0
        /\ \A i \in 1..Len(portfolio) :
               portfolio[i].type = "SIP" =>
                   /\ "monthly_amount" \in DOMAIN portfolio[i]
                   /\ portfolio[i].amount =
                          portfolio[i].monthly_amount * portfolio[i].months_invested

\* a goal-based portfolio with a share of 0 next to shares above 0
C29_ZeroShare ==
    /\ \E i \in 1..Len(portfolio) : portfolio[i].amount = 0
    /\ \E i \in 1..Len(portfolio) : portfolio[i].amount > 0

\* the analysis screen has raised on a portfolio whose amounts are all 0
C29_ZeroTotalAnalysed ==
    /\ page = [screen |-> "Portfolio Analysis", error |-> "ZeroDivisionError"]
    /\ portfolio # <<>>
    /\ SumAmounts(portfolio) = 0

(***************************************************************************)
(* C30: what Logout leaves in the session.                                 *)
(***************************************************************************)
\* C30: while no user is logged in, the session holds no holdings, no analysis,
\* no recommendations and no risk profile, just as it holds no user id, user
\* name and portfolio list
C30_LogoutResets ==
    ~session_state.is_logged_in =>
        /\ portfolio = <<>>
        /\ analysis_result = None
        /\ recommendations = None
        /\ risk_profile = ""
        /\ session_state.user_id = 0
        /\ session_state.user_name = ""
        /\ session_state.user_portfolios = <<>>

\* the keys that the Logout handler does reset
C30_UserKeysReset ==
    ~session_state.is_logged_in =>
        /\ session_state.user_id = 0
        /\ session_state.user_name = ""
        /\ session_state.current_portfolio_id = 0
        /\ session_state.user_portfolios = <<>>

\* a logged-out session that still holds the holdings, the analysis, the
\* recommendations and the risk profile of the user who logged out
C30_Leftovers ==
    /\ ~session_state.is_logged_in
    /\ portfolio # <<>>
    /\ analysis_result # None
    /\ recommendations # None
    /\ risk_profile # ""

====
